---------------------------- MODULE Spec2Model ----------------------------
(***************************************************************************)
(* Model of pyclits/entropy_calculation_test.py: the two Monte-Carlo sweep *)
(* drivers complete_test_1D and complete_test_ND and the command-line      *)
(* script that calls complete_test_ND once per requested dimension.        *)
(*                                                                         *)
(* The generator, the estimator and the oracle are injected callables      *)
(* (mutual_inf and random_samples are imported, not defined here).  They   *)
(* are modelled as deterministic stubs chosen in Init; the estimator may   *)
(* in addition raise at any call.  Every call is recorded in `calls`.      *)
(*                                                                         *)
(* print() writes tokens: column names, printed values, and the separators *)
(* tab, space and newline.  A text is kept as str.split reads it: the      *)
(* sequence of its lines (the last one is the unterminated rest), a line   *)
(* the sequence of its tab-separated fields.  `files` is what is on disk,  *)
(* fd.buf is what print() has written and the stream has not yet flushed.  *)
(***************************************************************************)
EXTENDS Integers, Sequences, FiniteSets, TLC

\* ------------------------------------------------------------ bounds
MaxSigmas == 2
MaxIndex == 2
MaxSamples == 2

\* the sigmas are drawn from SigmaVals, in any order and with repetitions;
\* the alphas and the sample sizes are initial segments of increasing lists
SigmaVals == {1, 2}
AlphaRange == <<1, 2>>
SizeRange == <<10, 20>>

None == "None"

\* ------------------------------------------------------------ numbers
RECURSIVE GCD(_, _)
GCD(a, b) == IF b = 0 THEN a ELSE GCD(b, a % b)

Abs(x) == IF x < 0 THEN -x ELSE x

\* an exact rational; den = 0 stands for nan
Rat(n, d) ==
    IF d = 0 THEN [num |-> 0, den |-> 0]
    ELSE LET g == GCD(Abs(n), Abs(d))
             s == IF d < 0 THEN -1 ELSE 1
         IN  [num |-> s * (n \div g), den |-> s * (d \div g)]

NaN == Rat(0, 0)

RECURSIVE Sum(_)
Sum(s) == IF s = <<>> THEN 0 ELSE Head(s) + Sum(Tail(s))

RECURSIVE Power(_, _)
Power(b, e) == IF e = 0 THEN 1 ELSE b * Power(b, e - 1)

\* np.mean of a list of integers (nan, with a warning, for the empty list)
Mean(xs) == Rat(Sum(xs), Len(xs))

\* np.var (population variance): np.std is its square root
Variance(xs) ==
    LET n == Len(xs)
    IN  Rat(n * Sum([i \in 1..n |-> xs[i] * xs[i]]) - Sum(xs) * Sum(xs), n * n)

\* stat.moment(xs, moment=3): the third central moment
Moment3(xs) ==
    LET n == Len(xs)
        S == Sum(xs)
    IN  Rat(Sum([i \in 1..n |-> Power(n * xs[i] - S, 3)]), Power(n, 4))

\* arithmetic on exact rationals
Zero == Rat(0, 1)
One == Rat(1, 1)
\* sums over the least common denominator and products reduced crosswise,
\* which keeps the intermediate numbers small
RAdd(a, b) ==
    IF a.den = 0 \/ b.den = 0 THEN Rat(0, 0)
    ELSE LET g == GCD(a.den, b.den)
         IN  Rat(a.num * (b.den \div g) + b.num * (a.den \div g),
                 (a.den \div g) * b.den)
RSub(a, b) == RAdd(a, [b EXCEPT !.num = -@])
RMul(a, b) ==
    IF a.den = 0 \/ b.den = 0 THEN Rat(0, 0)
    ELSE LET g1 == GCD(Abs(a.num), b.den)
             g2 == GCD(Abs(b.num), a.den)
         IN  Rat((a.num \div g1) * (b.num \div g2),
                 (a.den \div g2) * (b.den \div g1))
RPow(a, e) == Rat(Power(a.num, e), Power(a.den, e))

\* ------------------------------------------------------------ tokens
Tab == [t |-> "tab", s |-> "\t", l |-> 0, v |-> NaN]
Nl == [t |-> "nl", s |-> "\n", l |-> 0, v |-> NaN]
Sp == [t |-> "sp", s |-> " ", l |-> 0, v |-> NaN]
\* a column name, with the index it is labelled with (0: no label)
Col(name, label) == [t |-> "col", s |-> name, l |-> label, v |-> NaN]
\* a printed number; what |-> "sqrt" prints the square root of v
Val(what, r) == [t |-> what, s |-> "", l |-> 0, v |-> r]
Num(n) == Val("val", Rat(n, 1))

LeadingColumns ==
    <<"dimension", "alpha", "sample size", "sigma", "theoretical value">>

BlockColumns ==
    <<"mean Renyi entropy", "std Renyi entropy", "mean computer time",
      "std computer time", "mean difference", "std of difference",
      "3rd moment of difference">>

Most(xs) == SubSeq(xs, 1, Len(xs) - 1)
Last(xs) == xs[Len(xs)]

RECURSIVE Flatten(_)
Flatten(ss) == IF ss = <<>> THEN <<>> ELSE Head(ss) \o Flatten(Tail(ss))

\* every element of xs followed by the separator sep
EachThen(xs, sep) == Flatten([i \in 1..Len(xs) |-> <<xs[i], sep>>])

\* faulty variant of HeaderLine: no tab after "theoretical value"
HeaderLine_MissingTab(indices) ==
    Most(EachThen([i \in 1..Len(LeadingColumns) |-> Col(LeadingColumns[i], 0)],
                  Tab))
    \o Flatten([k \in 1..Len(indices) |->
           EachThen([j \in 1..Len(BlockColumns) |->
                        Col(BlockColumns[j], indices[k])], Tab)])
    \o [j \in 1..(2 * Len(BlockColumns)) |->
           IF j = 2 * Len(BlockColumns) THEN Nl
           ELSE IF j % 2 = 0 THEN Tab
           ELSE Col(BlockColumns[(j + 1) \div 2], 0)]

\* lines 72-79: the header of complete_test_ND
HeaderLine(indices) ==
    EachThen([i \in 1..Len(LeadingColumns) |-> Col(LeadingColumns[i], 0)], Tab)
    \o Flatten([k \in 1..Len(indices) |->
           EachThen([j \in 1..Len(BlockColumns) |->
                        Col(BlockColumns[j], indices[k])], Tab)])
    \o [j \in 1..(2 * Len(BlockColumns)) |->
           IF j = 2 * Len(BlockColumns) THEN Nl
           ELSE IF j % 2 = 0 THEN Tab
           ELSE Col(BlockColumns[(j + 1) \div 2], 0)]

\* line 100: the leading fields of a data row
RowPrefix(dimension, alpha, size_sample, sigma, theoretical_value) ==
    EachThen(<<Num(dimension), Num(alpha), Num(size_sample), Num(sigma),
               Num(theoretical_value)>>, Tab)

Values(outcomes) == [i \in 1..Len(outcomes) |-> outcomes[i].v]

\* lines 128-130: the seven aggregates of one index set
AggregateBlock(entropies, durations, differences) ==
    EachThen(<<Val("val", Mean(Values(entropies))),
               Val("sqrt", Variance(Values(entropies))),
               Val("val", Mean(Values(durations))),
               Val("sqrt", Variance(Values(durations))),
               Val("val", Mean(Values(differences))),
               Val("sqrt", Variance(Values(differences))),
               Val("val", Moment3(Values(differences)))>>, Tab)

\* ------------------------------------------------------------ texts
\* a line with one empty field; the text with nothing in it
EmptyLine == <<<<>>>>
EmptyText == <<EmptyLine>>

\* the line x continued by the line y
JoinLines(x, y) == Most(x) \o <<Last(x) \o Head(y)>> \o Tail(y)

\* the text a followed by the text b
Concat(a, b) == Most(a) \o <<JoinLines(Last(a), Head(b))>> \o Tail(b)

\* the text one token spells: a newline ends a line, a tab ends a field,
\* every other token is in the field being written
TextOf(tok) ==
    IF tok.t = "nl" THEN <<EmptyLine, EmptyLine>>
    ELSE IF tok.t = "tab" THEN << << <<>>, <<>> >> >>
    ELSE << << <<tok>> >> >>

RECURSIVE Text(_)
\* the text a sequence of tokens spells
Text(toks) ==
    IF Len(toks) = 0 THEN EmptyText
    ELSE IF Len(toks) = 1 THEN TextOf(toks[1])
    ELSE LET m == Len(toks) \div 2
         IN  Concat(Text(SubSeq(toks, 1, m)), Text(SubSeq(toks, m + 1, Len(toks))))

\* the lines of a text that end with a newline
Lines(content) == Most(content)

\* the text after the last newline
Unterminated(content) == Last(content)

\* the tab-separated fields of a line, as line.split("\t") gives them: a
\* trailing tab yields a last, empty field
Fields(line) == line

\* ------------------------------------------------------------ inputs
\* the sequences over vals of length at most n
SeqsUpTo(vals, n) == UNION {[1..k -> vals] : k \in 0..n}

\* the initial segments of a list
Segments(list) == {SubSeq(list, 1, k) : k \in 0..Len(list)}

\* np.identity(d), and the other skeletons the script builds, by what
\* the drivers read of them: the shape
Skeleton(d, kind) == [shape |-> d, kind |-> kind, rho |-> Zero]
\* sigma_skeleton = None
NoSkeleton == [shape |-> 0, kind |-> None, rho |-> Zero]

\* an optional number: a value, or Python's None
Just(x) == [isNone |-> FALSE, val |-> x]
NoNumber == [isNone |-> TRUE, val |-> Zero]

\* line 60: the default sigma_skeleton is np.identity(10)
DefaultDimension == 10

\* the stub estimators: on the sample drawn by generator call number d the
\* stub returns base + step * (d % 2); base is the stub oracle's value for
\* sigma = 1, alpha = 1, so the constant stub (step 0) returns the oracle
\* value in the cells of that pair
EstimatorStubs == {[base |-> 2, step |-> st] : st \in {0, 1}}

\* the stub oracle: an integer code of its arguments
TheoryStub(matrix_sigma, alpha, used_determinant) ==
    matrix_sigma.scale + alpha

\* ------------------------------------------------------------ state
VARIABLES
    entry,              \* which entry point runs: "ND", "1D", "main", ...
    pc,                 \* position in the running code
    args,               \* the parameters of the running complete_test_* call
    run,                \* number of the complete_test_* call (main: one per dimension)
    dimension,          \* line 69
    real_indeces,       \* lines 71-80: the index sets, the combined one last
    sigma_i, alpha_i, size_i, iset_i,   \* positions of the four for loops
    sample,             \* the trial counter of range(1, samples + 1)
    matrix_sigma, used_determinant, theoretical_value,
    entropy_samples, duration_samples, difference_samples,
    fd,                 \* the open report stream: its file and its buffer
    files,              \* the report files on disk: name -> content
    calls,              \* every call made to the generator, estimator, oracle
    exception,          \* the exception that left the call uncaught, or None
    cli,                \* main: the parsed command line
    dim_i,              \* main: how many dimensions the loop has started
    stderr,             \* main: the messages written to standard error
    exit_status,        \* main: "running", or the exit status of the process
    self,               \* geofield: the DataField a method is called on
    returned,           \* geofield: what the last method call returned
    index_epsilon,      \* transfer: how many epsilons the loop has started
    first_i, second_i,  \* transfer: positions of the two history loops
    filtrated_solution, \* transfer: the time points of the data in use
    results,            \* transfer: the dictionary pickled for an epsilon
    frames              \* process_datasets: one frame per file read so far

params == <<entry, args, cli>>
loops == <<sigma_i, alpha_i, size_i, iset_i, sample>>
locals == <<dimension, real_indeces, matrix_sigma, used_determinant, theoretical_value>>
dicts == <<entropy_samples, duration_samples, difference_samples>>
io == <<fd, files>>
mainvars == <<dim_i, stderr, exit_status>>
geo == <<self, returned>>
transfer == <<index_epsilon, first_i, second_i, filtrated_solution, results, frames>>
vars == <<params, pc, run, loops, locals, dicts, io, calls, exception, mainvars, geo,
          transfer>>

\* an xr.DataArray with no coordinates, and the absence of a DataField
NoData == [time |-> <<>>, lats |-> <<>>, lons |-> <<>>, values |-> <<>>]
NoField == [isNone |-> TRUE, data |-> NoData]

EmptyDict == [k \in {} |-> <<>>]
Closed == [open |-> FALSE, name |-> 0, buf |-> EmptyText]

\* d[k] = val for a Python dict
DictSet(d, k, val) == [x \in DOMAIN d \cup {k} |-> IF x = k THEN val ELSE d[x]]

\* the sweep lists a caller may pass
SigmaLists == SeqsUpTo(SigmaVals, MaxSigmas)
AlphaLists == Segments(AlphaRange)
SizeLists == Segments(SizeRange)
\* indices_to_use = (1, ..., n)
IndexLists == {[i \in 1..n |-> i] : n \in 0..MaxIndex}

NoCli ==
    [correlation_type |-> None, noise_type |-> None, dimensions |-> <<>>,
     sigmas |-> <<>>, alphas |-> <<>>, samples |-> <<>>, maximal_index |-> 0,
     correlation |-> Zero, renyi_entropy |-> [base |-> 0, step |-> 0]]

\* the report of a direct call is statistics.txt, file 0; the script's
\* report for dimension d is file d
\* a direct call of complete_test_ND (lines 60-68) with the default
\* skeleton, oracle, generator and determinant
ArgsND ==
    [filename : {0}, samples : 0..MaxSamples,
     sigma_skeleton : {Skeleton(DefaultDimension, "identity")},
     alphas : AlphaLists, sigmas : SigmaLists, sizes_of_sample : SizeLists,
     indices_to_use : IndexLists,
     theoretical_value_function : {"Renyi_normal_distribution_ND"},
     sample_estimator : EstimatorStubs,
     determinant : {NoNumber}]

InitLocals ==
    /\ run = 1
    /\ dimension = 0
    /\ real_indeces = <<>>
    /\ sigma_i = 0 /\ alpha_i = 0 /\ size_i = 0 /\ iset_i = 0 /\ sample = 0
    /\ matrix_sigma = [scale |-> 0, skeleton |-> NoSkeleton]
    /\ used_determinant = NoNumber
    /\ theoretical_value = 0
    /\ entropy_samples = EmptyDict
    /\ duration_samples = EmptyDict
    /\ difference_samples = EmptyDict
    /\ fd = Closed
    /\ files = EmptyDict
    /\ calls = <<>>
    /\ exception = None
    /\ dim_i = 0
    /\ stderr = <<>>
    /\ exit_status = "running"

\* nothing of transfer_entropy_test.py has run
InitNoTransfer ==
    /\ index_epsilon = 0
    /\ first_i = 0 /\ second_i = 0
    /\ filtrated_solution = <<>>
    /\ results = EmptyDict
    /\ frames = <<>>

\* the entropy tests construct no DataField
InitNoField ==
    /\ self = NoField
    /\ returned = NoField

InitND ==
    /\ entry = "ND"
    /\ pc = "nd_call"
    /\ args \in ArgsND
    /\ cli = NoCli
    /\ InitLocals
    /\ InitNoTransfer
    /\ InitNoField

\* ------------------------------------------------------------ shared steps
\* the position of the running trial, for the call log
Here == <<run, sigma_i, alpha_i, size_i, iset_i, sample>>

\* a call of an injected function: where it is made, the index set it is
\* given (the estimator's indices_to_use), whether it raises
Call(fn, indices, raised) ==
    [fn |-> fn, at |-> Here, indices |-> indices, raised |-> raised]

\* an exception leaves the `with` block: the stream is closed, which
\* writes its buffer to the file, and the exception propagates
Raise(exc) ==
    /\ files' = IF fd.open
                THEN DictSet(files, fd.name, Concat(files[fd.name], fd.buf))
                ELSE files
    /\ fd' = Closed
    /\ exception' = exc
    /\ pc' = IF entry = "main" THEN "main_died" ELSE "raised"

\* print(..., file=fd) without flush
Write(toks) == fd' = [fd EXCEPT !.buf = Concat(@, Text(toks))]

\* ------------------------------------------------------------ complete_test_ND
\* line 69
ND_Enter ==
    /\ pc = "nd_call"
    /\ IF args.sigma_skeleton.kind = None
       THEN /\ Raise("AttributeError")
            /\ UNCHANGED <<dimension>>
       ELSE /\ dimension' = args.sigma_skeleton.shape
            /\ pc' = "nd_open"
            /\ UNCHANGED <<io, exception>>
    /\ UNCHANGED <<params, geo, transfer, run, loops, real_indeces, matrix_sigma,
                   used_determinant, theoretical_value, dicts, calls, mainvars>>

\* faulty variant of ND_Header: the combined index set is put first
ND_Header_CombinedFirst ==
    /\ pc = "nd_open"
    /\ files' = DictSet(files, args.filename, EmptyText)
    /\ fd' = [open |-> TRUE, name |-> args.filename,
              buf |-> Text(HeaderLine(args.indices_to_use))]
    /\ real_indeces' = <<args.indices_to_use>>
                       \o [k \in 1..Len(args.indices_to_use) |->
                              <<args.indices_to_use[k]>>]
    /\ entropy_samples' = EmptyDict
    /\ duration_samples' = EmptyDict
    /\ difference_samples' = EmptyDict
    /\ sigma_i' = 1
    /\ pc' = "nd_sigma"
    /\ UNCHANGED <<params, geo, transfer, run, alpha_i, size_i, iset_i, sample, dimension,
                   matrix_sigma, used_determinant, theoretical_value, calls,
                   exception, mainvars>>

\* lines 70-85: open the report, write the header, build the index sets
ND_Header ==
    /\ pc = "nd_open"
    /\ files' = DictSet(files, args.filename, EmptyText)
    /\ fd' = [open |-> TRUE, name |-> args.filename,
              buf |-> Text(HeaderLine(args.indices_to_use))]
    /\ real_indeces' = [k \in 1..Len(args.indices_to_use) |->
                           <<args.indices_to_use[k]>>]
                       \o <<args.indices_to_use>>
    /\ entropy_samples' = EmptyDict
    /\ duration_samples' = EmptyDict
    /\ difference_samples' = EmptyDict
    /\ sigma_i' = 1
    /\ pc' = "nd_sigma"
    /\ UNCHANGED <<params, geo, transfer, run, alpha_i, size_i, iset_i, sample, dimension,
                   matrix_sigma, used_determinant, theoretical_value, calls,
                   exception, mainvars>>

\* faulty variant of ND_Sigma: the scaling is applied to the determinant of
\* the previous sigma
ND_Sigma_Accumulating ==
    /\ pc = "nd_sigma"
    /\ sigma_i <= Len(args.sigmas)
    /\ LET sigma == args.sigmas[sigma_i]
           before == IF sigma_i = 1 THEN args.determinant ELSE used_determinant
       IN  /\ matrix_sigma' = [scale |-> sigma, skeleton |-> args.sigma_skeleton]
           /\ used_determinant' =
                  IF ~before.isNone /\ before.val # Zero
                  THEN Just(RMul(before.val, Rat(Power(sigma, dimension), 1)))
                  ELSE before
    /\ alpha_i' = 1
    /\ pc' = "nd_alpha"
    /\ UNCHANGED <<params, geo, transfer, run, sigma_i, size_i, iset_i, sample, dimension,
                   real_indeces, theoretical_value, dicts, io, calls,
                   exception, mainvars>>

\* lines 87-94: the next sigma
ND_Sigma ==
    /\ pc = "nd_sigma"
    /\ sigma_i <= Len(args.sigmas)
    /\ LET sigma == args.sigmas[sigma_i]
       IN  /\ matrix_sigma' = [scale |-> sigma, skeleton |-> args.sigma_skeleton]
           /\ used_determinant' =
                  IF ~args.determinant.isNone /\ args.determinant.val # Zero
                  THEN Just(RMul(args.determinant.val,
                                 Rat(Power(sigma, dimension), 1)))
                  ELSE args.determinant
    /\ alpha_i' = 1
    /\ pc' = "nd_alpha"
    /\ UNCHANGED <<params, geo, transfer, run, sigma_i, size_i, iset_i, sample, dimension,
                   real_indeces, theoretical_value, dicts, io, calls,
                   exception, mainvars>>

\* the `with` block of line 70 ends: the stream is closed
CloseReport ==
    /\ files' = DictSet(files, fd.name, Concat(files[fd.name], fd.buf))
    /\ fd' = Closed

\* line 87 exhausted: the sweep is complete
ND_Return ==
    /\ pc = "nd_sigma"
    /\ sigma_i > Len(args.sigmas)
    /\ CloseReport
    /\ pc' = IF entry = "main" THEN "main_loop" ELSE "done"
    /\ UNCHANGED <<params, geo, transfer, run, loops, locals, dicts, calls, exception, mainvars>>

\* lines 96-97: the next alpha and its oracle value
ND_Alpha ==
    /\ pc = "nd_alpha"
    /\ alpha_i <= Len(args.alphas)
    /\ IF args.theoretical_value_function = None
       THEN /\ Raise("TypeError")
            /\ UNCHANGED <<theoretical_value, calls, size_i>>
       ELSE /\ theoretical_value' =
                   TheoryStub(matrix_sigma, args.alphas[alpha_i], used_determinant)
            /\ calls' = Append(calls, Call("oracle", <<>>, FALSE))
            /\ size_i' = 1
            /\ pc' = "nd_size"
            /\ UNCHANGED <<io, exception>>
    /\ UNCHANGED <<params, geo, transfer, run, sigma_i, alpha_i, iset_i, sample, dimension,
                   real_indeces, matrix_sigma, used_determinant, dicts, mainvars>>

\* line 96 exhausted
ND_AlphaDone ==
    /\ pc = "nd_alpha"
    /\ alpha_i > Len(args.alphas)
    /\ sigma_i' = sigma_i + 1
    /\ pc' = "nd_sigma"
    /\ UNCHANGED <<params, geo, transfer, run, alpha_i, size_i, iset_i, sample, locals, dicts,
                   io, calls, exception, mainvars>>

\* faulty variant of ND_Size: the sample sizes are walked in reverse
ND_Size_Reversed ==
    /\ pc = "nd_size"
    /\ size_i <= Len(args.sizes_of_sample)
    /\ Write(RowPrefix(dimension, args.alphas[alpha_i],
                       args.sizes_of_sample[Len(args.sizes_of_sample) + 1 - size_i],
                       args.sigmas[sigma_i], theoretical_value))
    /\ iset_i' = 1
    /\ pc' = "nd_iset"
    /\ UNCHANGED <<params, geo, transfer, run, sigma_i, alpha_i, size_i, sample, locals, dicts,
                   files, calls, exception, mainvars>>

\* lines 99-100: the next sample size; the leading fields of its row
ND_Size ==
    /\ pc = "nd_size"
    /\ size_i <= Len(args.sizes_of_sample)
    /\ Write(RowPrefix(dimension, args.alphas[alpha_i],
                       args.sizes_of_sample[size_i], args.sigmas[sigma_i],
                       theoretical_value))
    /\ iset_i' = 1
    /\ pc' = "nd_iset"
    /\ UNCHANGED <<params, geo, transfer, run, sigma_i, alpha_i, size_i, sample, locals, dicts,
                   files, calls, exception, mainvars>>

\* line 99 exhausted
ND_SizeDone ==
    /\ pc = "nd_size"
    /\ size_i > Len(args.sizes_of_sample)
    /\ alpha_i' = alpha_i + 1
    /\ pc' = "nd_alpha"
    /\ UNCHANGED <<params, geo, transfer, run, sigma_i, size_i, iset_i, sample, locals, dicts,
                   io, calls, exception, mainvars>>

\* line 103
SamplePosition ==
    <<args.alphas[alpha_i], args.sizes_of_sample[size_i], args.sigmas[sigma_i]>>

\* faulty variant of ResetLists: the lists of a key already present are kept
ResetLists_KeepExisting(sample_position) ==
    LET Keep(d) == IF sample_position \in DOMAIN d THEN d
                   ELSE DictSet(d, sample_position, <<>>)
    IN  /\ entropy_samples' = Keep(entropy_samples)
        /\ duration_samples' = Keep(duration_samples)
        /\ difference_samples' = Keep(difference_samples)

\* lines 105-107 (32-34): fresh lists for the cell
ResetLists(sample_position) ==
    /\ entropy_samples' = DictSet(entropy_samples, sample_position, <<>>)
    /\ duration_samples' = DictSet(duration_samples, sample_position, <<>>)
    /\ difference_samples' = DictSet(difference_samples, sample_position, <<>>)

\* lines 102-107: the next index set
ND_IndexSet ==
    /\ pc = "nd_iset"
    /\ iset_i <= Len(real_indeces)
    /\ ResetLists(SamplePosition)
    /\ sample' = 1
    /\ pc' = "nd_trial"
    /\ UNCHANGED <<params, geo, transfer, run, sigma_i, alpha_i, size_i, iset_i, locals, io,
                   calls, exception, mainvars>>

\* faulty variant of ND_EndRow: the row is ended but not flushed
ND_EndRow_NoFlush ==
    /\ pc = "nd_iset"
    /\ iset_i > Len(real_indeces)
    /\ Write(<<Nl>>)
    /\ size_i' = size_i + 1
    /\ pc' = "nd_size"
    /\ UNCHANGED <<params, geo, transfer, run, sigma_i, alpha_i, iset_i, sample, locals, dicts,
                   files, calls, exception, mainvars>>

\* faulty variant of ND_EndRow: the row is flushed without its newline
ND_EndRow_NoNewline ==
    /\ pc = "nd_iset"
    /\ iset_i > Len(real_indeces)
    /\ files' = DictSet(files, fd.name, Concat(files[fd.name], fd.buf))
    /\ fd' = [fd EXCEPT !.buf = EmptyText]
    /\ size_i' = size_i + 1
    /\ pc' = "nd_size"
    /\ UNCHANGED <<params, geo, transfer, run, sigma_i, alpha_i, iset_i, sample, locals, dicts,
                   calls, exception, mainvars>>

\* line 131, after the last index set: end the row and flush it
ND_EndRow ==
    /\ pc = "nd_iset"
    /\ iset_i > Len(real_indeces)
    /\ files' = DictSet(files, fd.name,
                        Concat(files[fd.name], Concat(fd.buf, Text(<<Nl>>))))
    /\ fd' = [fd EXCEPT !.buf = EmptyText]
    /\ size_i' = size_i + 1
    /\ pc' = "nd_size"
    /\ UNCHANGED <<params, geo, transfer, run, sigma_i, alpha_i, iset_i, sample, locals, dicts,
                   calls, exception, mainvars>>

\* what the stub estimator returns on the sample of generator call number d
Estimate(stub, d) == stub.base + stub.step * (d % 2)

\* what the stub estimator returns for one alpha when called with
\* indices_to_use = indices: a list with one estimate per requested index, in
\* the order requested, each marked with the index it belongs to (for an
\* empty request: one estimate, belonging to no index)
EstimatorResult(stub, d, indices) ==
    IF indices = <<>> THEN <<[of |-> <<>>, v |-> Estimate(stub, d)]>>
    ELSE [p \in 1..Len(indices) |-> [of |-> <<indices[p]>>, v |-> Estimate(stub, d)]]

\* line 117: entropy[alpha][0], the first entry of the list
ReadEntry(result) == result[1]

\* the number of generator calls made so far
GeneratorCalls == Cardinality({i \in 1..Len(calls) : calls[i].fn = "generator"})

\* faulty variant of AppendOutcome: the difference is recorded as
\* estimate - oracle
AppendOutcome_DifferenceReversed(sample_position, entropy_value, duration, difference) ==
    /\ entropy_samples' = [entropy_samples EXCEPT ![sample_position] =
           Append(@, [v |-> entropy_value, at |-> Here])]
    /\ duration_samples' = [duration_samples EXCEPT ![sample_position] =
           Append(@, [v |-> duration, at |-> Here])]
    /\ difference_samples' = [difference_samples EXCEPT ![sample_position] =
           Append(@, [v |-> 0 - difference, at |-> Here])]

\* lines 123-125 (49-51): record the outcome of the trial
AppendOutcome(sample_position, entropy_value, duration, difference) ==
    /\ entropy_samples' = [entropy_samples EXCEPT ![sample_position] =
           Append(@, [v |-> entropy_value, at |-> Here])]
    /\ duration_samples' = [duration_samples EXCEPT ![sample_position] =
           Append(@, [v |-> duration, at |-> Here])]
    /\ difference_samples' = [difference_samples EXCEPT ![sample_position] =
           Append(@, [v |-> difference, at |-> Here])]

\* faulty variant of ND_Trial: a trial whose estimator raises is skipped
ND_Trial_SkipFailed ==
    /\ pc = "nd_trial"
    /\ sample <= args.samples
    /\ \E raises \in BOOLEAN :
          /\ calls' = calls \o <<Call("generator", <<>>, FALSE),
                                  Call("estimator", real_indeces[iset_i], raises)>>
          /\ IF raises
             THEN UNCHANGED dicts
             ELSE LET entropy_value ==
                          ReadEntry(EstimatorResult(args.sample_estimator,
                                         GeneratorCalls + 1,
                                         real_indeces[iset_i])).v
                  IN  AppendOutcome(SamplePosition, entropy_value, 1,
                                    theoretical_value - entropy_value)
          /\ sample' = sample + 1
          /\ UNCHANGED <<pc, io, exception>>
    /\ UNCHANGED <<params, geo, transfer, run, sigma_i, alpha_i, size_i, iset_i, locals, mainvars>>

\* faulty variant of ND_Trial: the oracle is evaluated again in every trial
ND_Trial_OraclePerTrial ==
    /\ pc = "nd_trial"
    /\ sample <= args.samples
    /\ \E raises \in BOOLEAN :
          /\ calls' = calls \o <<Call("oracle", <<>>, FALSE),
                                  Call("generator", <<>>, FALSE),
                                  Call("estimator", real_indeces[iset_i], raises)>>
          /\ IF raises
             THEN /\ Raise("EstimatorFailure")
                  /\ UNCHANGED <<dicts, sample>>
             ELSE LET entropy_value ==
                          ReadEntry(EstimatorResult(args.sample_estimator,
                                         GeneratorCalls + 1,
                                         real_indeces[iset_i])).v
                  IN  /\ AppendOutcome(SamplePosition, entropy_value, 1,
                                       theoretical_value - entropy_value)
                      /\ sample' = sample + 1
                      /\ UNCHANGED <<pc, io, exception>>
    /\ UNCHANGED <<params, geo, transfer, run, sigma_i, alpha_i, size_i, iset_i, locals, mainvars>>

\* faulty variant of ND_Trial: the sample is drawn in the first pass of a
\* leaf only and used again by the later passes
ND_Trial_ReuseSample ==
    /\ pc = "nd_trial"
    /\ sample <= args.samples
    /\ \E raises \in BOOLEAN :
          /\ calls' = IF iset_i = 1
                      THEN calls \o <<Call("generator", <<>>, FALSE),
                                      Call("estimator", real_indeces[iset_i], raises)>>
                      ELSE Append(calls, Call("estimator", real_indeces[iset_i], raises))
          /\ IF raises
             THEN /\ Raise("EstimatorFailure")
                  /\ UNCHANGED <<dicts, sample>>
             ELSE LET entropy_value ==
                          ReadEntry(EstimatorResult(args.sample_estimator,
                                         GeneratorCalls + 1,
                                         real_indeces[iset_i])).v
                  IN  /\ AppendOutcome(SamplePosition, entropy_value, 1,
                                       theoretical_value - entropy_value)
                      /\ sample' = sample + 1
                      /\ UNCHANGED <<pc, io, exception>>
    /\ UNCHANGED <<params, geo, transfer, run, sigma_i, alpha_i, size_i, iset_i, locals, mainvars>>

\* lines 109-125: one trial
ND_Trial ==
    /\ pc = "nd_trial"
    /\ sample <= args.samples
    /\ \E raises \in BOOLEAN :
          /\ calls' = calls \o <<Call("generator", <<>>, FALSE),
                                  Call("estimator", real_indeces[iset_i], raises)>>
          /\ IF raises
             THEN /\ Raise("EstimatorFailure")
                  /\ UNCHANGED <<dicts, sample>>
             ELSE LET entropy_value ==
                          ReadEntry(EstimatorResult(args.sample_estimator,
                                         GeneratorCalls + 1,
                                         real_indeces[iset_i])).v
                  IN  /\ AppendOutcome(SamplePosition, entropy_value, 1,
                                       theoretical_value - entropy_value)
                      /\ sample' = sample + 1
                      /\ UNCHANGED <<pc, io, exception>>
    /\ UNCHANGED <<params, geo, transfer, run, sigma_i, alpha_i, size_i, iset_i, locals, mainvars>>

\* lines 128-130: the aggregates of the index set
ND_Aggregate ==
    /\ pc = "nd_trial"
    /\ sample > args.samples
    /\ Write(AggregateBlock(entropy_samples[SamplePosition],
                            duration_samples[SamplePosition],
                            difference_samples[SamplePosition]))
    /\ iset_i' = iset_i + 1
    /\ pc' = "nd_iset"
    /\ UNCHANGED <<params, geo, transfer, run, sigma_i, alpha_i, size_i, sample, locals, dicts,
                   files, calls, exception, mainvars>>

NextND ==
    \/ ND_Enter \/ ND_Header \/ ND_Sigma \/ ND_Return \/ ND_Alpha
    \/ ND_AlphaDone \/ ND_Size \/ ND_SizeDone \/ ND_IndexSet \/ ND_EndRow
    \/ ND_Trial \/ ND_Aggregate

\* ------------------------------------------------------------ complete_test_1D
\* a direct call of complete_test_1D (lines 13-20) with the default oracle
\* and generator
Args1D ==
    [filename : {0}, samples : 0..MaxSamples,
     sigma_skeleton : {NoSkeleton},
     alphas : AlphaLists, sigmas : SigmaLists, sizes_of_sample : SizeLists,
     indices_to_use : {<<>>},
     theoretical_value_function : {"Renyi_normal_distribution_1D"},
     sample_estimator : EstimatorStubs,
     determinant : {NoNumber}]

Init1D ==
    /\ entry = "1D"
    /\ pc = "1d_call"
    /\ args \in Args1D
    /\ cli = NoCli
    /\ InitLocals
    /\ InitNoTransfer
    /\ InitNoField

\* the stub oracle of the 1-D sweep
TheoryStub1D(sigma, alpha) == sigma + alpha

\* lines 21-24: open the report
D1_Open ==
    /\ pc = "1d_call"
    /\ files' = DictSet(files, args.filename, EmptyText)
    /\ fd' = [open |-> TRUE, name |-> args.filename, buf |-> EmptyText]
    /\ entropy_samples' = EmptyDict
    /\ duration_samples' = EmptyDict
    /\ difference_samples' = EmptyDict
    /\ sigma_i' = 1
    /\ pc' = "1d_sigma"
    /\ UNCHANGED <<params, geo, transfer, run, alpha_i, size_i, iset_i, sample, locals, calls,
                   exception, mainvars>>

\* line 26: the next sigma
D1_Sigma ==
    /\ pc = "1d_sigma"
    /\ sigma_i <= Len(args.sigmas)
    /\ alpha_i' = 1
    /\ pc' = "1d_alpha"
    /\ UNCHANGED <<params, geo, transfer, run, sigma_i, size_i, iset_i, sample, locals, dicts,
                   io, calls, exception, mainvars>>

\* line 26 exhausted: the `with` block of line 21 ends
D1_Return ==
    /\ pc = "1d_sigma"
    /\ sigma_i > Len(args.sigmas)
    /\ CloseReport
    /\ pc' = "done"
    /\ UNCHANGED <<params, geo, transfer, run, loops, locals, dicts, calls, exception, mainvars>>

\* line 27: the next alpha
D1_Alpha ==
    /\ pc = "1d_alpha"
    /\ alpha_i <= Len(args.alphas)
    /\ size_i' = 1
    /\ pc' = "1d_size"
    /\ UNCHANGED <<params, geo, transfer, run, sigma_i, alpha_i, iset_i, sample, locals, dicts,
                   io, calls, exception, mainvars>>

\* line 27 exhausted
D1_AlphaDone ==
    /\ pc = "1d_alpha"
    /\ alpha_i > Len(args.alphas)
    /\ sigma_i' = sigma_i + 1
    /\ pc' = "1d_sigma"
    /\ UNCHANGED <<params, geo, transfer, run, alpha_i, size_i, iset_i, sample, locals, dicts,
                   io, calls, exception, mainvars>>

\* lines 28-34: the next sample size, its oracle value and fresh lists
D1_Size ==
    /\ pc = "1d_size"
    /\ size_i <= Len(args.sizes_of_sample)
    /\ theoretical_value' =
           TheoryStub1D(args.sigmas[sigma_i], args.alphas[alpha_i])
    /\ calls' = Append(calls, Call("oracle", <<>>, FALSE))
    /\ ResetLists(SamplePosition)
    /\ sample' = 1
    /\ pc' = "1d_trial"
    /\ UNCHANGED <<params, geo, transfer, run, sigma_i, alpha_i, size_i, iset_i, dimension,
                   real_indeces, matrix_sigma, used_determinant, io, exception,
                   mainvars>>

\* line 28 exhausted
D1_SizeDone ==
    /\ pc = "1d_size"
    /\ size_i > Len(args.sizes_of_sample)
    /\ alpha_i' = alpha_i + 1
    /\ pc' = "1d_alpha"
    /\ UNCHANGED <<params, geo, transfer, run, sigma_i, size_i, iset_i, sample, locals, dicts,
                   io, calls, exception, mainvars>>

\* lines 36-51: one trial
D1_Trial ==
    /\ pc = "1d_trial"
    /\ sample <= args.samples
    /\ \E raises \in BOOLEAN :
          /\ calls' = calls \o <<Call("generator", <<>>, FALSE),
                                  Call("estimator", <<>>, raises)>>
          /\ IF raises
             THEN /\ Raise("EstimatorFailure")
                  /\ UNCHANGED <<dicts, sample>>
             ELSE LET entropy == Estimate(args.sample_estimator, GeneratorCalls + 1)
                  IN  /\ AppendOutcome(SamplePosition, entropy, 1,
                                       theoretical_value - entropy)
                      /\ sample' = sample + 1
                      /\ UNCHANGED <<pc, io, exception>>
    /\ UNCHANGED <<params, geo, transfer, run, sigma_i, alpha_i, size_i, iset_i, locals, mainvars>>

\* every element of xs, with sep between neighbours
Joined(xs, sep) ==
    [j \in 1..(2 * Len(xs) - 1) |-> IF j % 2 = 0 THEN sep ELSE xs[(j + 1) \div 2]]

\* lines 55-57: the row of the cell, space-separated
Row1D(alpha, size_sample, sigma, entropies, durations, differences) ==
    Joined(<<Num(alpha), Num(size_sample), Num(sigma),
             Val("val", Mean(Values(entropies))),
             Val("sqrt", Variance(Values(entropies))),
             Val("val", Mean(Values(durations))),
             Val("sqrt", Variance(Values(durations))),
             Val("val", Mean(Values(differences))),
             Val("sqrt", Variance(Values(differences)))>>, Sp) \o <<Nl>>

\* lines 55-57
D1_Row ==
    /\ pc = "1d_trial"
    /\ sample > args.samples
    /\ Write(Row1D(args.alphas[alpha_i], args.sizes_of_sample[size_i],
                   args.sigmas[sigma_i], entropy_samples[SamplePosition],
                   duration_samples[SamplePosition],
                   difference_samples[SamplePosition]))
    /\ size_i' = size_i + 1
    /\ pc' = "1d_size"
    /\ UNCHANGED <<params, geo, transfer, run, sigma_i, alpha_i, iset_i, sample, locals, dicts,
                   files, calls, exception, mainvars>>

Next1D ==
    \/ D1_Open \/ D1_Sigma \/ D1_Return \/ D1_Alpha \/ D1_AlphaDone
    \/ D1_Size \/ D1_SizeDone \/ D1_Trial \/ D1_Row

\* ------------------------------------------------------------ the script
\* lines 183-184
correlation_types == <<"identity", "weakly_correlated", "strongly_correlated">>
noise_types == <<"gaussian", "student", "sub_gaussian">>

Range(f) == {f[i] : i \in DOMAIN f}

\* line 254: the script runs every cell with samples=3
MainSamples == 3

\* the command lines: --dimensions, --alphas and --samples are given,
\* --sigmas may be absent, --correlation is left at its default
CommandLines ==
    [correlation_type : Range(correlation_types) \cup {"unknown"},
     noise_type : Range(noise_types) \cup {"unknown"},
     dimensions : {<<2>>, <<2, 3>>},
     sigmas : {<<>>, <<2>>},
     alphas : {<<1>>},
     samples : {<<10>>},
     maximal_index : 0..MaxIndex,
     correlation : {Zero},
     renyi_entropy : EstimatorStubs]

NoArgs ==
    [filename |-> 0, samples |-> 0, sigma_skeleton |-> NoSkeleton,
     alphas |-> <<>>, sigmas |-> <<>>, sizes_of_sample |-> <<>>,
     indices_to_use |-> <<>>, theoretical_value_function |-> None,
     sample_estimator |-> [base |-> 0, step |-> 0], determinant |-> NoNumber]

InitMain ==
    /\ entry = "main"
    /\ pc = "main_call"
    /\ args = NoArgs
    /\ cli \in CommandLines
    /\ InitLocals
    /\ InitNoTransfer
    /\ InitNoField

\* lines 227-232: the oracle of a noise type
Theory(noise_type) ==
    CASE noise_type = "gaussian" -> "Renyi_normal_distribution_ND"
      [] noise_type = "student" -> "Renyi_student_t_distribution"
      [] OTHER -> None

\* faulty variant of TridiagonalDeterminant: D_n = D_{n-1} - rho D_{n-2}
RECURSIVE TridiagonalDeterminant_LinearRho(_, _)
TridiagonalDeterminant_LinearRho(n, rho) ==
    IF n <= 1 THEN One
    ELSE RSub(TridiagonalDeterminant_LinearRho(n - 1, rho),
              RMul(rho, TridiagonalDeterminant_LinearRho(n - 2, rho)))

\* tridiagonal_matrix_determinant of random_samples: D_n = D_{n-1} - rho^2 D_{n-2}
RECURSIVE TridiagonalDeterminant(_, _)
TridiagonalDeterminant(n, rho) ==
    IF n <= 1 THEN One
    ELSE RSub(TridiagonalDeterminant(n - 1, rho),
              RMul(RMul(rho, rho), TridiagonalDeterminant(n - 2, rho)))

\* lines 242-252: the skeleton and its determinant
SkeletonOf(correlation_type, d, correlation) ==
    IF correlation_type = correlation_types[1] THEN Skeleton(d, "identity")
    ELSE IF correlation_type = correlation_types[2]
         THEN [Skeleton(d, "tridiagonal") EXCEPT !.rho = correlation]
    ELSE NoSkeleton

DeterminantOf(correlation_type, d, correlation) ==
    IF correlation_type = correlation_types[1] THEN Just(One)
    ELSE IF correlation_type = correlation_types[2]
         THEN Just(TridiagonalDeterminant(d, correlation))
    ELSE IF correlation_type = correlation_types[3]
         THEN Just(RMul(RPow(RSub(One, correlation), d),
                        RAdd(One, RMul(Rat(d, 1), correlation))))
    ELSE NoNumber

\* raise SystemExit(message): the message on standard error, exit status 1
SystemExit(message) ==
    /\ stderr' = Append(stderr, message)
    /\ exit_status' = "1"
    /\ pc' = "exited"

\* faulty variant of Main_Validate: the noise type is not checked
Main_Validate_NoNoiseCheck ==
    /\ pc = "main_call"
    /\ IF cli.correlation_type \notin Range(correlation_types)
       THEN SystemExit("Wrong type correlation type")
       ELSE /\ pc' = "main_loop"
            /\ UNCHANGED <<stderr, exit_status>>
    /\ UNCHANGED <<params, geo, transfer, run, loops, locals, dicts, io, calls, exception, dim_i>>

\* lines 181-195: validation of the two type options
Main_Validate ==
    /\ pc = "main_call"
    /\ IF cli.correlation_type \notin Range(correlation_types)
       THEN SystemExit("Wrong type correlation type")
       ELSE IF cli.noise_type \notin Range(noise_types)
       THEN SystemExit("Wrong type correlation type")
       ELSE /\ pc' = "main_loop"
            /\ UNCHANGED <<stderr, exit_status>>
    /\ UNCHANGED <<params, geo, transfer, run, loops, locals, dicts, io, calls, exception, dim_i>>

\* lines 241-258: the next dimension; call complete_test_ND for it
Main_Dimension ==
    /\ pc = "main_loop"
    /\ dim_i < Len(cli.dimensions)
    /\ dim_i' = dim_i + 1
    /\ run' = dim_i + 1
    /\ LET d == cli.dimensions[dim_i + 1]
       IN  args' = [filename |-> d,
                    samples |-> MainSamples,
                    sigma_skeleton |->
                        SkeletonOf(cli.correlation_type, d, cli.correlation),
                    alphas |-> cli.alphas,
                    sigmas |-> IF cli.sigmas # <<>> THEN cli.sigmas ELSE <<1>>,
                    sizes_of_sample |-> cli.samples,
                    indices_to_use |-> [i \in 1..cli.maximal_index |-> i],
                    theoretical_value_function |-> Theory(cli.noise_type),
                    sample_estimator |-> cli.renyi_entropy,
                    determinant |->
                        DeterminantOf(cli.correlation_type, d, cli.correlation)]
    /\ pc' = "nd_call"
    /\ sigma_i' = 0 /\ alpha_i' = 0 /\ size_i' = 0 /\ iset_i' = 0 /\ sample' = 0
    /\ UNCHANGED <<entry, cli, geo, transfer, locals, dicts, io, calls, exception, stderr,
                   exit_status>>

\* line 241 exhausted: the script ends
Main_Exit ==
    /\ pc = "main_loop"
    /\ dim_i = Len(cli.dimensions)
    /\ exit_status' = "0"
    /\ pc' = "exited"
    /\ UNCHANGED <<params, geo, transfer, run, loops, locals, dicts, io, calls, exception,
                   dim_i, stderr>>

\* an exception reaches the top level: traceback, exit status 1
Main_Die ==
    /\ pc = "main_died"
    /\ stderr' = Append(stderr, exception)
    /\ exit_status' = "1"
    /\ pc' = "exited"
    /\ UNCHANGED <<params, geo, transfer, run, loops, locals, dicts, io, calls, exception, dim_i>>

NextMain == Main_Validate \/ Main_Dimension \/ Main_Exit \/ Main_Die

Init == InitND \/ Init1D \/ InitMain
Next == NextND \/ Next1D \/ NextMain
Spec == Init /\ [][Next]_vars

\* ------------------------------------------------------------ reading the state
\* everything written to the report so far, flushed or not
Written(name) ==
    IF fd.open /\ fd.name = name THEN Concat(files[name], fd.buf) ELSE files[name]

\* the lines written so far, the unterminated last one included
AllLines(content) ==
    Lines(content)
    \o (IF Unterminated(content) = EmptyLine THEN <<>>
        ELSE <<Unterminated(content)>>)

\* the grid of the running call
NumAlphas == Len(args.alphas)
NumSizes == Len(args.sizes_of_sample)
NumLeaves == Len(args.sigmas) * NumAlphas * NumSizes
NumIndices == Len(args.indices_to_use)

\* the leaf (sigma, alpha, sample size) with 0-based number i in nested-loop order
LeafAt(i) ==
    <<args.sigmas[(i \div (NumAlphas * NumSizes)) + 1],
      args.alphas[((i \div NumSizes) % NumAlphas) + 1],
      args.sizes_of_sample[(i % NumSizes) + 1]>>

\* the (sigma, alpha, sample size) a data row of the N-D report states
RowLeaf(line) ==
    LET f == Fields(line) IN <<f[4][1].v.num, f[2][1].v.num, f[3][1].v.num>>

\* the reports of complete_test_ND calls
ReportsND == IF entry = "1D" THEN {} ELSE DOMAIN files

\* the reports of the complete_test_ND calls that ran to completion
CompletedND ==
    IF entry = "ND" THEN (IF pc = "done" THEN {0} ELSE {})
    ELSE IF entry = "main"
    THEN {cli.dimensions[k] :
            k \in 1..(IF pc = "main_loop" \/ exit_status = "0"
                      THEN dim_i ELSE dim_i - 1)}
    ELSE {}

\* ------------------------------------------------------------ claims
\* C1: in complete_test_ND the data rows appear in nested-loop order, sigma
\* outermost, alpha in the middle, sample size innermost: the row with 0-based
\* number i (after the header) is the leaf
\* (sigmas[i div (A*S)], alphas[(i div S) mod A], sizes[i mod S]).
C1_RowsInNestedLoopOrder ==
    \A name \in ReportsND :
        LET rows == Tail(AllLines(Written(name)))
        IN  \A i \in 1..Len(rows) : RowLeaf(rows[i]) = LeafAt(i - 1)

\* a completed 2 x 2 x 2 sweep with its eight rows
C1_Witness ==
    /\ entry = "ND" /\ pc = "done"
    /\ Len(args.sigmas) = 2 /\ NumAlphas = 2 /\ NumSizes = 2
    /\ args.sigmas[1] # args.sigmas[2]
    /\ Len(Lines(files[0])) = 9

\* C2: a complete_test_ND sweep that runs to completion writes exactly one
\* header line followed by exactly |sigmas| * |alphas| * |sizes_of_sample|
\* data rows, one per leaf, none duplicated or missing.
C2_OneRowPerLeaf ==
    \A name \in CompletedND :
        LET lines == Lines(files[name])
        IN  /\ Unterminated(files[name]) = EmptyLine
            /\ Len(lines) = 1 + NumLeaves
            /\ <<lines[1], EmptyLine>> = Text(HeaderLine(args.indices_to_use))
            /\ \A i \in 1..NumLeaves :
                  /\ RowLeaf(lines[i + 1]) = LeafAt(i - 1)
                  /\ \A j \in 1..Len(lines[i + 1]) :
                        \A k \in 1..Len(lines[i + 1][j]) :
                            lines[i + 1][j][k].t # "col"

\* a completed two-leaf sweep: one header row and two data rows
C2_Witness ==
    /\ entry = "ND" /\ pc = "done"
    /\ NumLeaves = 2
    /\ args.samples = 2
    /\ Len(Lines(files[0])) = 3

\* the aggregate of the running cell (and index set) is about to be written
AggregateDue == pc \in {"nd_trial", "1d_trial"} /\ sample > args.samples

\* the list holds the outcomes of the trials 1..samples of the running cell
\* and index set, and nothing else
HoldsThisCell(list) ==
    /\ Len(list) = args.samples
    /\ \A t \in 1..Len(list) :
          list[t].at = <<run, sigma_i, alpha_i, size_i, iset_i, t>>

\* C3: in both drivers, whenever an aggregate is computed for a grid cell
\* (N-D: for one index set of the cell), each of the three accumulation lists
\* of that cell holds exactly `samples` outcomes, all produced for that cell
\* and index set, none left over from an earlier cell or index set.
C3_ListsHoldThisCellsTrials ==
    AggregateDue =>
        /\ HoldsThisCell(entropy_samples[SamplePosition])
        /\ HoldsThisCell(duration_samples[SamplePosition])
        /\ HoldsThisCell(difference_samples[SamplePosition])

\* the aggregate of the second index set of a cell whose key (alpha, size,
\* sigma) was already used by an earlier cell (sigmas = (s, s))
C3_Witness ==
    /\ AggregateDue /\ pc = "nd_trial"
    /\ args.samples = 2
    /\ sigma_i = 2 /\ args.sigmas[1] = args.sigmas[2]
    /\ iset_i = 2

\* the log entries of the oracle calls
OracleCalls == {i \in 1..Len(calls) : calls[i].fn = "oracle"}

\* the first n positions of a call: <<run, sigma_i, alpha_i, ...>>
Prefix(at, n) == SubSeq(at, 1, n)

\* a complete_test_1D or complete_test_ND call has returned
SweepCompleted ==
    \/ entry \in {"ND", "1D"} /\ pc = "done"
    \/ entry = "main" /\ pc = "main_loop" /\ dim_i >= 1

\* the oracle calls of the call that has just returned
OracleCallsOfRun == {i \in OracleCalls : calls[i].at[1] = run}

\* C4 as stated: in every sweep, by either driver, the oracle is evaluated
\* exactly once per (sigma, alpha) pair: a completed sweep makes exactly
\* |sigmas| * |alphas| oracle calls.
C4_OracleOncePerSigmaAlpha ==
    /\ \A i, j \in OracleCalls :
          Prefix(calls[i].at, 3) = Prefix(calls[j].at, 3) => i = j
    /\ SweepCompleted =>
          Cardinality(OracleCallsOfRun) = Len(args.sigmas) * NumAlphas

\* C4 amended: complete_test_ND evaluates the oracle exactly once per
\* (sigma, alpha) pair, |sigmas| * |alphas| calls in a completed sweep;
\* complete_test_1D evaluates it exactly once per
\* (sigma, alpha, sample size) cell, |sigmas| * |alphas| * |sizes_of_sample|
\* calls; in neither does the number depend on index sets or trials.
C4_OracleOncePerPairND_PerCell1D ==
    LET n == IF entry = "1D" THEN 4 ELSE 3
    IN  /\ \A i, j \in OracleCalls :
              Prefix(calls[i].at, n) = Prefix(calls[j].at, n) => i = j
        /\ SweepCompleted =>
              Cardinality(OracleCallsOfRun) =
                  (IF entry = "1D" THEN NumLeaves
                   ELSE Len(args.sigmas) * NumAlphas)

\* a completed 1-D sweep over two sample sizes: eight cells, eight oracle calls
C4_Witness ==
    /\ entry = "1D" /\ pc = "done"
    /\ NumSizes = 2 /\ NumLeaves = 8 /\ args.samples = 2
    /\ Cardinality(OracleCalls) = 8

EstimatorCalls == {i \in 1..Len(calls) : calls[i].fn = "estimator"}

\* the last n elements of xs
LastOf(xs, n) == SubSeq(xs, Len(xs) - n + 1, Len(xs))

\* the row of the running leaf has all its blocks; line 131 comes next
RowEndDue == pc = "nd_iset" /\ iset_i > Len(real_indeces)

\* C5: in complete_test_ND, for every leaf the index sets are evaluated in
\* the order of indices_to_use as singletons [i], and the combined set of all
\* indices is evaluated exactly once and last, after every singleton pass of
\* the leaf; its aggregate is the last 7-column block of the row.
C5_CombinedSetLast ==
    entry # "1D" =>
      /\ real_indeces # <<>> =>
            /\ Len(real_indeces) = NumIndices + 1
            /\ \A k \in 1..NumIndices :
                  real_indeces[k] = <<args.indices_to_use[k]>>
            /\ real_indeces[NumIndices + 1] = args.indices_to_use
      \* the log only grows, so every estimator call is its last entry in
      \* the state after it was made: checking the newest call in every
      \* state checks them all
      /\ \A i \in {Len(calls)} \cap EstimatorCalls :
            LET k == calls[i].at[5]
                leaf == Prefix(calls[i].at, 4)
                \* the estimator calls made before this one in the same leaf
                earlier == {j \in 1..(i - 1) :
                               /\ calls[j].fn = "estimator"
                               /\ Prefix(calls[j].at, 4) = leaf}
            IN  /\ k \in 1..(NumIndices + 1)
                /\ calls[i].indices = IF k <= NumIndices
                                      THEN <<args.indices_to_use[k]>>
                                      ELSE args.indices_to_use
                \* passes in order; no trial of a pass runs twice
                /\ \A j \in earlier :
                      \/ calls[j].at[5] < k
                      \/ calls[j].at[5] = k /\ calls[j].at[6] < calls[i].at[6]
                \* every earlier pass ran each of its trials: the calls made
                \* before this one in the leaf are distinct and earlier in
                \* (pass, trial) order, so it is enough to count them
                /\ calls[i].at[6] \in 1..args.samples
                /\ Cardinality(earlier)
                       = (k - 1) * args.samples + calls[i].at[6] - 1
      /\ RowEndDue =>
            /\ \A t \in 1..Len(entropy_samples[SamplePosition]) :
                  entropy_samples[SamplePosition][t].at[5] = NumIndices + 1
            /\ LET row == Fields(Unterminated(fd.buf))
                   block == Text(AggregateBlock(entropy_samples[SamplePosition],
                                                duration_samples[SamplePosition],
                                                difference_samples[SamplePosition]))
               IN  /\ Len(row) > Len(BlockColumns)
                   /\ LastOf(row, Len(BlockColumns) + 1) = Unterminated(block)

\* a row is complete after the passes over [1], [2] and the combined set
C5_Witness ==
    /\ RowEndDue
    /\ NumIndices = 2 /\ args.samples = 2
    /\ Len(entropy_samples[SamplePosition]) = 2

\* the 0-based number, in nested-loop order, of the leaf at loop positions
\* (si, ai, zi)
LeafNumber(si, ai, zi) ==
    (si - 1) * NumAlphas * NumSizes + (ai - 1) * NumSizes + (zi - 1)

\* the outcomes recorded under any key of the three dictionaries
Recorded ==
    UNION {Range(entropy_samples[k]) \cup Range(duration_samples[k])
           \cup Range(difference_samples[k]) : k \in DOMAIN entropy_samples}

\* the estimator calls that raised
RaisedCalls == {i \in EstimatorCalls : calls[i].raised}

\* a line of n tab-terminated printed values: n fields of one value each
\* and, after the last tab, an empty one
ValuesLine(line, n) ==
    /\ Len(Fields(line)) = n + 1
    /\ \A k \in 1..n :
          /\ Len(Fields(line)[k]) = 1
          /\ Fields(line)[k][1].t \in {"val", "sqrt"}
    /\ Fields(line)[n + 1] = <<>>

\* C6: if the estimator raises during a trial of complete_test_ND, the failure
\* is not caught or skipped: the sweep stops at that trial, no later trial,
\* generator call, estimator call or oracle call happens, and no aggregate is
\* computed for the index set that was in progress.
C6_EstimatorFailureStopsSweep ==
    entry # "1D" =>
        \A i \in RaisedCalls :
            /\ i = Len(calls)
            /\ pc \in {"raised", "main_died", "exited"}
            /\ pc = "exited" => exit_status = "1"
            /\ exception = "EstimatorFailure"
            /\ ~fd.open
            /\ \A o \in Recorded : o.at # calls[i].at
            \* the row in progress has its leading fields and the blocks of
            \* the index sets before the one in progress, and no more
            /\ ValuesLine(Unterminated(files[args.filename]),
                          5 + 7 * (calls[i].at[5] - 1))

\* the estimator raises in the second trial of the second index set
C6_Witness ==
    /\ entry = "ND" /\ pc = "raised"
    /\ RaisedCalls # {}
    /\ calls[Len(calls)].at[5] = 2 /\ calls[Len(calls)].at[6] = 2

\* a complete data row of the N-D report: the row of leaf number i
CompleteRow(line, i) ==
    /\ ValuesLine(line, 5 + 7 * (NumIndices + 1))
    /\ RowLeaf(line) = LeafAt(i)

\* the text is the header line followed by the complete rows of the leaves
\* 0..n-1, each ended by its newline, and nothing else
HeaderAndRows(content, n) ==
    /\ Unterminated(content) = EmptyLine
    /\ Len(Lines(content)) = 1 + n
    /\ <<Lines(content)[1], EmptyLine>> = Text(HeaderLine(args.indices_to_use))
    /\ \A i \in 1..n : CompleteRow(Lines(content)[i + 1], i - 1)

\* a trial of a leaf is running or about to run
InLeaf == pc \in {"nd_iset", "nd_trial"}

\* C7: in complete_test_ND every row is flushed to the report file as soon as
\* its last index-set aggregate is written, before the first trial of the next
\* leaf starts; hence if the sweep aborts in leaf number n, the file contains
\* the header and the complete rows of all leaves 0..n-1.
C7_RowsFlushedBeforeNextLeaf ==
    entry # "1D" =>
        /\ (InLeaf /\ LeafNumber(sigma_i, alpha_i, size_i) >= 1) =>
              HeaderAndRows(files[fd.name], LeafNumber(sigma_i, alpha_i, size_i))
        /\ \A i \in RaisedCalls :
              LET n == LeafNumber(calls[i].at[2], calls[i].at[3], calls[i].at[4])
                  content == files[args.filename]
              IN  HeaderAndRows(Lines(content) \o <<EmptyLine>>, n)

\* the sweep aborts in leaf number 2, after two rows were flushed
C7_Witness ==
    /\ entry = "ND" /\ pc = "raised"
    /\ RaisedCalls # {}
    /\ LeafNumber(sigma_i, alpha_i, size_i) = 2
    /\ Len(Lines(files[0])) = 3
    /\ NumIndices = 1

\* C8 as stated: partial output for an in-progress cell never reaches the
\* report: at every point of a complete_test_ND run, and after the run was
\* aborted by an exception raised in a trial, the report file consists of the
\* header followed only by complete data rows (or is still empty); it never
\* ends with a row prefix or with only some of the row's index-set blocks.
C8_OnlyCompleteRowsInFile ==
    \A name \in ReportsND :
        \/ files[name] = EmptyText
        \/ HeaderAndRows(files[name], Len(Lines(files[name])) - 1)

\* C9: when correlation_type is not one of identity / weakly_correlated /
\* strongly_correlated, or noise_type is not one of gaussian / student /
\* sub_gaussian, the process terminates with a non-zero exit status and an
\* error message before any report file is opened and before any generator,
\* estimator or oracle call.
C9_InvalidTypesExitBeforeAnyWork ==
    (/\ entry = "main"
     /\ \/ cli.correlation_type \notin Range(correlation_types)
        \/ cli.noise_type \notin Range(noise_types))
    => /\ files = EmptyDict
       /\ ~fd.open
       /\ calls = <<>>
       /\ pc \in {"main_call", "exited"}
       /\ pc = "exited" => (exit_status = "1" /\ Len(stderr) = 1)

\* the script has exited on an unknown noise type
C9_Witness ==
    /\ entry = "main" /\ pc = "exited"
    /\ cli.correlation_type = "identity"
    /\ cli.noise_type = "unknown"
    /\ exit_status = "1"

\* the column the header of the N-D report must have at position k
ExpectedColumn(k) ==
    IF k <= 5 THEN Col(LeadingColumns[k], 0)
    ELSE LET g == ((k - 6) \div 7) + 1
             name == BlockColumns[((k - 6) % 7) + 1]
         IN  IF g <= NumIndices THEN Col(name, args.indices_to_use[g])
             ELSE Col(name, 0)

\* C10: the header line written by complete_test_ND for n indices consists of
\* the 5 leading columns, then for each index in the order of indices_to_use
\* one group of the 7 block columns carrying that index as label, then one
\* final unlabeled group of the same 7 columns for the combined index set:
\* 5 + 7*(n+1) tab-separated columns in total.
C10_HeaderColumns ==
    \A name \in ReportsND :
        LET header == Fields(AllLines(Written(name))[1])
        IN  /\ Len(header) = 5 + 7 * (NumIndices + 1)
            /\ \A k \in 1..Len(header) : header[k] = <<ExpectedColumn(k)>>

\* the header for two indices is in the file, followed by a row
C10_Witness ==
    /\ entry = "ND"
    /\ NumIndices = 2
    /\ 0 \in DOMAIN files
    /\ Len(Lines(files[0])) = 2

\* ------------------------------------------------------------ aggregates
\* the N-D driver has just written the block of an index set
BlockWritten == entry # "1D" /\ pc = "nd_iset" /\ iset_i > 1

\* the 1-D driver has just written the row of a cell
RowWritten1D == entry = "1D" /\ pc = "1d_size" /\ size_i > 1

\* the key of the cell whose aggregate was written last
WrittenPosition ==
    IF entry = "1D"
    THEN <<args.alphas[alpha_i], args.sizes_of_sample[size_i - 1],
           args.sigmas[sigma_i]>>
    ELSE SamplePosition

\* every outcome of the list is the same value
AllSame(list) == \A t \in 1..Len(list) : list[t].v = list[1].v

\* the aggregates written last: the seven fields of the N-D block, the six
\* aggregates of the 1-D row
WrittenAggregates ==
    IF entry = "1D"
    THEN LET row == Last(Lines(fd.buf))[1]
         IN  [j \in 1..6 |-> row[2 * j + 5]]
    ELSE LET row == Fields(Unterminated(fd.buf))
             n == Len(BlockColumns)
         IN  [j \in 1..n |-> row[Len(row) - n - 1 + j][1]]

Exactly(x) == Val("val", Rat(x, 1))
ZeroStd == Val("sqrt", Rat(0, 1))

C12_EmptyAggregateFails ==
    (entry \in {"ND", "1D"} /\ args.samples = 0) =>
        /\ ~BlockWritten
        /\ ~RowWritten1D
        /\ pc = "done" => NumLeaves = 0


\* ------------------------------------------------------------ covariance matrices
\* the largest dimension requested on the command line
MaxDimension == 5

\* values of --correlation
CorrelationValues == {Zero, Rat(1, 10), Rat(1, 2), Rat(9, 10)}

\* lines 245 and 248: np.identity(d), and
\* np.identity(d) + c * np.eye(d, k=1) + c * np.eye(d, k=-1)
SkeletonEntry(skeleton, i, j) ==
    IF i = j THEN One
    ELSE IF skeleton.kind = "tridiagonal" /\ (i = j + 1 \/ j = i + 1)
    THEN skeleton.rho
    ELSE Zero

\* the skeleton as a matrix: the sequence of its rows
SkeletonMatrix(skeleton) ==
    [i \in 1..skeleton.shape |->
        [j \in 1..skeleton.shape |-> SkeletonEntry(skeleton, i, j)]]

\* line 88: matrix_sigma = sigma * sigma_skeleton
CovarianceMatrix(ms) ==
    [i \in 1..ms.skeleton.shape |->
        [j \in 1..ms.skeleton.shape |->
            RMul(Rat(ms.scale, 1), SkeletonEntry(ms.skeleton, i, j))]]

\* the matrix m without its first row and without column c
Minor(m, c) ==
    [i \in 1..(Len(m) - 1) |->
        [j \in 1..(Len(m) - 1) |-> m[i + 1][IF j < c THEN j ELSE j + 1]]]

RECURSIVE RSum(_)
RSum(xs) == IF xs = <<>> THEN Zero ELSE RAdd(Head(xs), RSum(Tail(xs)))

\* the determinant, computed directly: expansion along the first row
RECURSIVE Determinant(_)
Determinant(m) ==
    IF Len(m) = 0 THEN One
    ELSE IF Len(m) = 1 THEN m[1][1]
    ELSE RSum([c \in 1..Len(m) |->
             IF m[1][c] = Zero THEN Zero
             ELSE RMul(IF c % 2 = 1 THEN m[1][c] ELSE RSub(Zero, m[1][c]),
                       Determinant(Minor(m, c)))])

\* the leading k x k block of m
Leading(m, k) == [i \in 1..k |-> [j \in 1..k |-> m[i][j]]]

Symmetric(m) == \A i, j \in 1..Len(m) : m[i][j] = m[j][i]

\* Sylvester's criterion
PositiveDefinite(m) ==
    /\ Symmetric(m)
    /\ \A k \in 1..Len(m) : Determinant(Leading(m, k)).num > 0

\* the command lines with an accepted correlation type and noise type, one
\* requested dimension, and --correlation given
CovarianceCommandLines ==
    [correlation_type : Range(correlation_types),
     noise_type : {"gaussian"},
     dimensions : {<<d>> : d \in 2..MaxDimension},
     sigmas : {<<>>, <<2>>, <<2, 1>>},
     alphas : {<<1>>},
     samples : {<<10>>},
     maximal_index : {0},
     correlation : CorrelationValues,
     renyi_entropy : {[base |-> 2, step |-> 0]}]

InitCovariance ==
    /\ entry = "main"
    /\ pc = "main_call"
    /\ args = NoArgs
    /\ cli \in CovarianceCommandLines
    /\ InitLocals
    /\ InitNoTransfer
    /\ InitNoField

NextCovariance == NextMain \/ NextND

\* the script run with every correlation type, dimension and correlation
SpecCovariance == InitCovariance /\ [][NextCovariance]_vars

\* the running complete_test_ND call has handed matrix_sigma to the oracle
\* (line 97) or to the generator (line 113)
MatrixPassed ==
    /\ entry = "main"
    /\ \E i \in 1..Len(calls) : calls[i].at[1] = run
    /\ pc \in {"nd_size", "nd_iset", "nd_trial", "nd_alpha"}

\* C13 as stated: every covariance matrix the command-line driver passes to
\* the generator and the oracle is symmetric positive-definite, with
\* dimension equal to the requested dimension.
C13_CovarianceSymmetricPositiveDefinite ==
    MatrixPassed =>
        /\ Len(CovarianceMatrix(matrix_sigma)) = cli.dimensions[dim_i]
        /\ dimension = cli.dimensions[dim_i]
        /\ PositiveDefinite(CovarianceMatrix(matrix_sigma))


\* C14: for the weakly_correlated skeleton (unit diagonal, rho on the first
\* super- and sub-diagonal, zero elsewhere) the determinant given by the
\* recurrence D_n = D_{n-1} - rho^2 D_{n-2}, D_0 = D_1 = 1, equals the
\* directly computed determinant of the n x n matrix the driver builds, for
\* every n in 2..MaxDimension and rho in {0, 0.1, 0.5, 0.9}, exactly.
C14_RecurrenceIsDeterminant ==
    (entry = "main" /\ args.sigma_skeleton.kind = "tridiagonal") =>
        /\ ~args.determinant.isNone
        /\ args.determinant.val = Determinant(SkeletonMatrix(args.sigma_skeleton))
        /\ args.sigma_skeleton.shape = cli.dimensions[dim_i]
        /\ args.sigma_skeleton.rho = cli.correlation

\* the 5 x 5 skeleton with rho = 0.9: both computations give -0.2717
C14_Witness ==
    /\ entry = "main" /\ pc = "nd_call"
    /\ args.sigma_skeleton.kind = "tridiagonal"
    /\ args.sigma_skeleton.shape = 5
    /\ cli.correlation = Rat(9, 10)
    /\ args.determinant.val = Rat(0 - 2717, 10000)
    /\ Determinant(SkeletonMatrix(args.sigma_skeleton)) = Rat(0 - 2717, 10000)


\* ------------------------------------------------------------ memory
\* the number of trial outcomes a dict of lists holds
HeldOutcomes(d) ==
    Cardinality(UNION {{<<k, t>> : t \in 1..Len(d[k])} : k \in DOMAIN d})

\* C15 as stated: trial outcomes are buffered for one cell only: at every
\* point of a sweep (either driver) the number of trial outcomes held in the
\* in-memory accumulation structures is at most the repeat count `samples`;
\* it does not grow with the number of cells already processed.
C15_OneCellBuffered ==
    /\ HeldOutcomes(entropy_samples) <= args.samples
    /\ HeldOutcomes(duration_samples) <= args.samples
    /\ HeldOutcomes(difference_samples) <= args.samples


\* ------------------------------------------------------------ the estimator's result
\* the index or index set whose entry line 117 reads when the estimator was
\* called with indices_to_use = indices
EntryRead(indices) == ReadEntry(EstimatorResult(args.sample_estimator, 0, indices)).of

\* C16 as stated: for every trial, complete_test_ND reads the estimate out
\* of the estimator's result as result[alpha][k], k being the index or index
\* set requested in that call (for the pass over [i] the entry of i, for the
\* combined pass the entry of the combined set); it never reads an entry
\* belonging to a different index than the one requested.
C16_ReadsRequestedEntry ==
    entry # "1D" =>
        \A i \in 1..Len(calls) :
            (calls[i].fn = "estimator" /\ ~calls[i].raised) =>
                EntryRead(calls[i].indices) = calls[i].indices


\* ------------------------------------------------------------ the 1-D report
\* a header line: every tab-separated field is a column name
IsHeaderLine(line) ==
    \A f \in 1..Len(Fields(line)) :
        Len(Fields(line)[f]) = 1 /\ Fields(line)[f][1].t = "col"

\* C17 as stated: the report written by complete_test_1D follows the same
\* tabular contract as the N-D one: its first line is a header line, every
\* following line is one (sigma, alpha, sample_size) leaf with tab-separated
\* fields, and each row is flushed to the file when its leaf completes.
C17_Report1DTabular ==
    RowWritten1D =>
        LET onDisk == Lines(files[args.filename])
        IN  /\ onDisk = Lines(Written(args.filename))
            /\ Len(onDisk) = LeafNumber(sigma_i, alpha_i, size_i - 1) + 2
            /\ IsHeaderLine(onDisk[1])
            /\ \A k \in 2..Len(onDisk) : Len(Fields(onDisk[k])) > 1


\* ------------------------------------------------------------ geofield
\* A DataField holds an xr.DataArray: the coordinate lists time, lats, lons
\* and one value per (time, lat, lon) cell.  Coordinates are whole numbers
\* (degrees, month numbers); a value is the tag <<g, t, la, lo>> of the cell
\* it was measured or computed for, g counting the computations (resampling,
\* anomalies) it went through.
MaxLons == 3
MaxCalls == 2

\* the longitudes of the test grid: every 90 degrees
LonGrid == {0, 90, 180, 270}
\* bounds a caller may pass: on the grid and between its points
LonBounds == {45, 180, 270}

Cell(g, t, la, lo) == <<g, t, la, lo>>

\* line 112: ((lons + 180) % 360) - 180
ToMinus_NoWrap(lon) == lon - 180

ToMinus(lon) == ((lon + 180) % 360) - 180

\* line 131: (lons + 360) % 360
ToAllEast(lon) == (lon + 360) % 360

\* lines 101-118: assign_coords replaces the longitudes, positions and
\* values stay
shift_lons_to_minus_notation(dataarray) ==
    [dataarray EXCEPT !.lons = [j \in 1..Len(@) |-> ToMinus(@[j])]]

\* lines 120-135
shift_lons_to_all_east_notation(dataarray) ==
    [dataarray EXCEPT !.lons = [j \in 1..Len(@) |-> ToAllEast(@[j])]]

\* isel along one dimension: the cells at the positions idx, in that order
TakeTime(d, idx) ==
    [d EXCEPT !.time = [k \in 1..Len(idx) |-> d.time[idx[k]]],
              !.values = [k \in 1..Len(idx) |-> d.values[idx[k]]]]

TakeLats(d, idx) ==
    [d EXCEPT !.lats = [k \in 1..Len(idx) |-> d.lats[idx[k]]],
              !.values = [t \in 1..Len(d.time) |->
                             [k \in 1..Len(idx) |-> d.values[t][idx[k]]]]]

TakeLons(d, idx) ==
    [d EXCEPT !.lons = [k \in 1..Len(idx) |-> d.lons[idx[k]]],
              !.values = [t \in 1..Len(d.time) |->
                             [i \in 1..Len(d.lats) |->
                                 [k \in 1..Len(idx) |-> d.values[t][i][idx[k]]]]]]

\* sortby: the positions of a coordinate's labels in ascending order (the
\* labels of a coordinate are distinct)
Ascending(labels) ==
    [k \in 1..Len(labels) |->
        CHOOSE i \in 1..Len(labels) :
            Cardinality({m \in 1..Len(labels) : labels[m] < labels[i]}) = k - 1]

\* faulty variant of DataField_init: negative longitudes are kept
DataField_init_KeepNegative(data) ==
    LET byLats == TakeLats(data, Ascending(data.lats))
        byTime == TakeTime(byLats, Ascending(byLats.time))
    IN  [isNone |-> FALSE, data |-> byTime]

\* lines 37-57: DataField(data); the coordinates are renamed to lats, lons,
\* time (names are not modelled), the data sorted by lats and by time, not
\* by lons, and negative longitudes shifted to 0-360
DataField_init(data) ==
    LET byLats == TakeLats(data, Ascending(data.lats))
        byTime == TakeTime(byLats, Ascending(byLats.time))
    IN  [isNone |-> FALSE,
         data |-> IF \E j \in 1..Len(byTime.lons) : byTime.lons[j] < 0
                  THEN shift_lons_to_all_east_notation(byTime)
                  ELSE byTime]

\* the data of a file: its coordinates as stored and a value for every cell
FileData(time, lats, lons) ==
    [time |-> time, lats |-> lats, lons |-> lons,
     values |-> [t \in 1..Len(time) |-> [i \in 1..Len(lats) |->
                   [j \in 1..Len(lons) |->
                       Cell(0, time[t], lats[i], ToAllEast(lons[j]))]]]]

\* a file stores a stretch of the grid eastwards from its first longitude,
\* in 0-360 or in -180-179 notation
FileLons ==
    {[j \in 1..n |-> (start + 90 * (j - 1)) % 360] :
        start \in LonGrid, n \in 1..MaxLons}
    \cup {[j \in 1..n |-> ToMinus(start + 90 * (j - 1))] :
        start \in LonGrid, n \in 1..MaxLons}
\* latitudes south to north or north to south
FileLats == {<<-30, 30>>, <<30, -30>>}
\* monthly data
FileTimes == {<<1, 2, 3>>}
\* files with data of every second month
SparseFiles == {FileData(<<1, 3, 5>>, lats, <<-90, 0>>) : lats \in FileLats}
Files ==
    {FileData(time, lats, lons) :
        time \in FileTimes, lats \in FileLats, lons \in FileLons}
    \cup SparseFiles

\* the call that constructed the field
NewCall(data) == [method |-> "__init__", data |-> data]

InitGeo ==
    /\ entry = "geofield"
    /\ pc = "geo"
    /\ cli = NoCli
    /\ InitLocals
    /\ InitNoTransfer
    /\ \E data \in Files :
        /\ args = NewCall(data)
        /\ self = DataField_init(data)
    /\ returned = NoField

\* ---- .sel(coordinate=slice(from, to)): pandas' label slice
Increasing(index) == \A i \in 1..(Len(index) - 1) : index[i] <= index[i + 1]
Decreasing(index) == \A i \in 1..(Len(index) - 1) : index[i] >= index[i + 1]

\* Index.get_slice_bound: the position of the label when the index has it;
\* otherwise where it would be inserted in a monotonic index; otherwise a
\* KeyError (-1).  Positions count from 0.
SliceBound(index, label, side) ==
    LET at == {i \in 1..Len(index) : index[i] = label}
    IN  IF at # {}
        THEN IF side = "left" THEN (CHOOSE i \in at : TRUE) - 1
                              ELSE CHOOSE i \in at : TRUE
        ELSE IF Increasing(index)
        THEN Cardinality({i \in 1..Len(index) : index[i] < label})
        ELSE IF Decreasing(index)
        THEN Cardinality({i \in 1..Len(index) : index[i] > label})
        ELSE -1

\* Index.slice_indexer: the positions from the left bound up to the right
\* bound, none when the left bound lies behind the right one
SelSlice(index, from, to) ==
    LET start == SliceBound(index, from, "left")
        stop == SliceBound(index, to, "right")
    IN  [raised |-> start < 0 \/ stop < 0,
         idx |-> IF start < 0 \/ stop < 0 \/ stop <= start THEN <<>>
                 ELSE [k \in 1..(stop - start) |-> start + k]]

\* what a method computes before it looks at inplace: the new data, or the
\* exception it raises
Ok(data) == [raised |-> None, data |-> data]
Raises(kind) == [raised |-> kind, data |-> NoData]

\* a pair of bounds, or None
NoBounds == [isNone |-> TRUE, from |-> 0, to |-> 0]
Bounds(from, to) == [isNone |-> FALSE, from |-> from, to |-> to]

\* the positions in S, ascending
SortedSeq(S) ==
    [k \in 1..Cardinality(S) |->
        CHOOSE i \in S : Cardinality({m \in S : m < i}) = k - 1]

\* the generation of the data's values
Gen(d) == d.values[1][1][1][1]

\* lines 173-196, up to the inplace branch
select_date(data, date_from, date_to) ==
    LET s == SelSlice(data.time, date_from, date_to)
    IN  IF s.raised THEN Raises("KeyError") ELSE Ok(TakeTime(data, s.idx))

\* the calendar month of a month number
Month(t) == ((t - 1) % 12) + 1

\* lines 198-220, up to the inplace branch
select_months(data, months) ==
    Ok(TakeTime(data, SortedSeq({x \in 1..Len(data.time) :
                                    Month(data.time[x]) \in months})))

\* lines 222-253, up to the inplace branch, with the selected longitudes
\* left in -180-179 notation
select_lat_lon_NoShiftBack(data, lats, lons) ==
    LET byLats == IF lats.isNone THEN [raised |-> FALSE, idx |-> <<>>]
                  ELSE SelSlice(data.lats, lats.from, lats.to)
        selected_data == IF lats.isNone THEN data
                         ELSE TakeLats(data, byLats.idx)
        shifted == shift_lons_to_minus_notation(selected_data)
        byLons == SelSlice(shifted.lons, ToMinus(lons.from), ToMinus(lons.to))
    IN  IF byLats.raised THEN Raises("KeyError")
        ELSE IF lons.isNone THEN Ok(selected_data)
        ELSE IF byLons.raised THEN Raises("KeyError")
        ELSE Ok(TakeLons(shifted, byLons.idx))

\* lines 222-253, up to the inplace branch
select_lat_lon(data, lats, lons) ==
    LET byLats == IF lats.isNone THEN [raised |-> FALSE, idx |-> <<>>]
                  ELSE SelSlice(data.lats, lats.from, lats.to)
        selected_data == IF lats.isNone THEN data
                         ELSE TakeLats(data, byLats.idx)
        shifted == shift_lons_to_minus_notation(selected_data)
        byLons == SelSlice(shifted.lons, ToMinus(lons.from), ToMinus(lons.to))
    IN  IF byLats.raised THEN Raises("KeyError")
        ELSE IF lons.isNone THEN Ok(selected_data)
        ELSE IF byLons.raised THEN Raises("KeyError")
        ELSE Ok(shift_lons_to_all_east_notation(
                    TakeLons(shifted, byLons.idx)))

\* np.arange(start, stop, step) for whole numbers
Arange(start, stop, step) ==
    [k \in 1..((stop - start + step - 1) \div step) |-> start + (k - 1) * step]

SeqMin(seq) == CHOOSE x \in {seq[i] : i \in 1..Len(seq)} :
                   \A i \in 1..Len(seq) : x <= seq[i]
SeqMax(seq) == CHOOSE x \in {seq[i] : i \in 1..Len(seq)} :
                   \A i \in 1..Len(seq) : x >= seq[i]

\* lines 266-284, up to the inplace branch: resample_to is a number of
\* months; one time step per period from the first month to the last, each
\* value reduced from the values of its period
temporal_resample(data, resample_to) ==
    LET time == Arange(SeqMin(data.time), SeqMax(data.time) + 1, resample_to)
    IN  Ok([data EXCEPT
              !.time = time,
              !.values = [t \in 1..Len(time) |-> [i \in 1..Len(data.lats) |->
                            [j \in 1..Len(data.lons) |->
                                Cell(Gen(data) + 1, time[t], data.lats[i],
                                     data.lons[j])]]]])

\* lines 286-320, up to the inplace branch: min() of an empty coordinate
\* raises ValueError; the values are interpolated on the new grid
spatial_resample(data, d_lat, d_lon) ==
    IF Len(data.lats) = 0 \/ Len(data.lons) = 0 THEN Raises("ValueError")
    ELSE
    LET shifted == shift_lons_to_minus_notation(data)
        lats == Arange(SeqMin(shifted.lats), SeqMax(shifted.lats) + 1, d_lat)
        lons == Arange(SeqMin(shifted.lons), SeqMax(shifted.lons) + 1, d_lon)
        resampled ==
            [shifted EXCEPT
               !.lats = lats, !.lons = lons,
               !.values = [t \in 1..Len(data.time) |-> [i \in 1..Len(lats) |->
                             [j \in 1..Len(lons) |->
                                 Cell(Gen(data) + 1, data.time[t], lats[i],
                                      ToAllEast(lons[j]))]]]]
    IN  Ok(shift_lons_to_all_east_notation(resampled))

\* pd.infer_freq of month numbers: at least three dates are needed
\* (ValueError); "MS" for consecutive months, "2MS" for every second month,
\* None when the steps differ
infer_freq(time) ==
    IF Len(time) < 3 THEN "ValueError"
    ELSE IF \A i \in 1..(Len(time) - 1) : time[i + 1] = time[i] + 1 THEN "MS"
    ELSE IF \A i \in 1..(Len(time) - 1) : time[i + 1] = time[i] + 2 THEN "2MS"
    ELSE None

\* lines 339 and 342: the frequencies deseasonalise accepts
MonthlyFreqs == {"M", "SM", "BM", "MS", "SMS", "BMS"}
DailyFreqs == {"C", "B", "D"}

\* the anomalies keep the coordinates, every value is computed anew
Anomalies(data) ==
    [data EXCEPT
       !.values = [t \in 1..Len(data.time) |->
                    [i \in 1..Len(data.lats) |->
                       [j \in 1..Len(data.lons) |->
                           Cell(Gen(data) + 1, data.time[t],
                                data.lats[i], data.lons[j])]]]]

\* lines 322-374 without the frequency check of lines 339-350
deseasonalise_AnyFrequency(data) ==
    IF infer_freq(data.time) = "ValueError" THEN Raises("ValueError")
    ELSE Ok(Anomalies(data))

\* lines 322-374, up to the inplace branch, base_period None
deseasonalise(data) ==
    LET inferred_freq == infer_freq(data.time)
    IN  IF inferred_freq = "ValueError" THEN Raises("ValueError")
        ELSE IF inferred_freq \notin MonthlyFreqs \cup DailyFreqs
        THEN Raises("ValueError")
        ELSE Ok(Anomalies(data))

\* ---- the method calls
GeoReady == entry = "geofield" /\ pc = "geo" /\ run <= MaxCalls

\* the end of every method with an inplace flag: an exception leaves the
\* method; inplace=True assigns self.data and returns no DataField;
\* inplace=False returns DataField(data=...)
Finish(call, outcome) ==
    /\ args' = call
    /\ run' = run + 1
    /\ IF outcome.raised # None
       THEN /\ exception' = outcome.raised
            /\ pc' = "geo_raised"
            /\ returned' = NoField
            /\ UNCHANGED self
       ELSE IF call.inplace
       THEN /\ self' = [self EXCEPT !.data = outcome.data]
            /\ returned' = NoField
            /\ UNCHANGED <<exception, pc>>
       ELSE /\ returned' = DataField_init(outcome.data)
            /\ UNCHANGED <<self, exception, pc>>
    /\ UNCHANGED <<entry, cli, loops, locals, dicts, io, calls, mainvars,
                   transfer>>

\* the arguments the calls are made with
DateBounds == {0, 2}
MonthLists == {{1}, {1, 3}}
LatBounds == {NoBounds, Bounds(-10, 30)}
LonBoundPairs ==
    {NoBounds} \cup {Bounds(w, e) : w \in LonBounds, e \in LonBounds}

Select_date ==
    /\ GeoReady
    /\ \E date_from \in DateBounds, date_to \in DateBounds, inplace \in BOOLEAN :
        Finish([method |-> "select_date", date_from |-> date_from,
                date_to |-> date_to, inplace |-> inplace],
               select_date(self.data, date_from, date_to))

Select_months ==
    /\ GeoReady
    /\ \E months \in MonthLists, inplace \in BOOLEAN :
        Finish([method |-> "select_months", months |-> months,
                inplace |-> inplace],
               select_months(self.data, months))

Select_lat_lon ==
    /\ GeoReady
    /\ \E lats \in LatBounds, lons \in LonBoundPairs, inplace \in BOOLEAN :
        Finish([method |-> "select_lat_lon", lats |-> lats, lons |-> lons,
                inplace |-> inplace],
               select_lat_lon(self.data, lats, lons))

\* an empty field is not resampled
Temporal_resample ==
    /\ GeoReady
    /\ Len(self.data.time) > 0
    /\ \E resample_to \in {1, 2}, inplace \in BOOLEAN :
        Finish([method |-> "temporal_resample", resample_to |-> resample_to,
                inplace |-> inplace],
               temporal_resample(self.data, resample_to))

Spatial_resample ==
    /\ GeoReady
    /\ \E d_lat \in {60}, d_lon \in {45, 90}, inplace \in BOOLEAN :
        Finish([method |-> "spatial_resample", d_lat |-> d_lat,
                d_lon |-> d_lon, inplace |-> inplace],
               spatial_resample(self.data, d_lat, d_lon))

Deseasonalise ==
    /\ GeoReady
    /\ \E inplace \in BOOLEAN :
        Finish([method |-> "deseasonalise", inplace |-> inplace],
               deseasonalise(self.data))

\* test_shift_lons, lines 179-194: the shifts called on the field's data or
\* on the array the previous shift returned; chain lists the shifts applied
\* to the field's data so far
ShiftNames == {"shift_lons_to_minus_notation", "shift_lons_to_all_east_notation"}

ShiftSource(onReturned) == IF onReturned THEN returned.data ELSE self.data
ShiftChain(onReturned) == IF onReturned THEN args.chain ELSE <<>>
ShiftAllowed(onReturned) ==
    onReturned => (args.method \in ShiftNames /\ ~returned.isNone)

Shift_lons_to_minus_notation ==
    /\ GeoReady
    /\ \E onReturned \in BOOLEAN :
        /\ ShiftAllowed(onReturned)
        /\ args' = [method |-> "shift_lons_to_minus_notation",
                    chain |-> Append(ShiftChain(onReturned),
                                     "shift_lons_to_minus_notation")]
        /\ returned' = [isNone |-> FALSE,
                        data |-> shift_lons_to_minus_notation(
                                     ShiftSource(onReturned))]
    /\ run' = run + 1
    /\ UNCHANGED <<entry, cli, pc, self, exception, loops, locals, dicts, io,
                   calls, mainvars, transfer>>

Shift_lons_to_all_east_notation ==
    /\ GeoReady
    /\ \E onReturned \in BOOLEAN :
        /\ ShiftAllowed(onReturned)
        /\ args' = [method |-> "shift_lons_to_all_east_notation",
                    chain |-> Append(ShiftChain(onReturned),
                                     "shift_lons_to_all_east_notation")]
        /\ returned' = [isNone |-> FALSE,
                        data |-> shift_lons_to_all_east_notation(
                                     ShiftSource(onReturned))]
    /\ run' = run + 1
    /\ UNCHANGED <<entry, cli, pc, self, exception, loops, locals, dicts, io,
                   calls, mainvars, transfer>>

NextGeo ==
    \/ Select_date \/ Select_months \/ Select_lat_lon
    \/ Temporal_resample \/ Spatial_resample \/ Deseasonalise
    \/ Shift_lons_to_minus_notation \/ Shift_lons_to_all_east_notation

SpecGeo == InitGeo /\ [][NextGeo]_vars

\* ---- C18
InRange(lons, low, high) == \A j \in 1..Len(lons) : low <= lons[j] /\ lons[j] <= high

Eastward(west, east, lon) == (lon - west) % 360 <= (east - west) % 360

\* the region lats = [a, b], lons = [w, e] of the data: the grid points in
\* it, in their original order
Region(data, lats, lons) ==
    LET inLats == TakeLats(data, SortedSeq({i \in 1..Len(data.lats) :
                      lats.from <= data.lats[i] /\ data.lats[i] <= lats.to}))
    IN  TakeLons(inLats, SortedSeq({j \in 1..Len(data.lons) :
                      Eastward(lons.from, lons.to, data.lons[j])}))

\* a select_lat_lon call with both bounds given has just been made
SelectLatLonStep ==
    /\ entry = "geofield"
    /\ run' = run + 1
    /\ args'.method = "select_lat_lon"
    /\ ~args'.lats.isNone
    /\ ~args'.lons.isNone

\* what the call left: the field's data (inplace) or the returned field's
ResultData == IF args'.inplace THEN self'.data ELSE returned'.data

\* C19 as stated: select_lat_lon(lats=[a, b], lons=[w, e]) keeps exactly the
\* grid points whose latitude lies in [a, b] and whose longitude lies in the
\* eastward interval from w to e, both ends inclusive, also through the
\* prime meridian; the kept longitudes are in 0-360 notation in their
\* original order.
C19_SelectKeepsRegion ==
    [][SelectLatLonStep =>
          /\ exception' = None
          /\ ResultData = Region(self.data, args'.lats, args'.lons)]_vars

\* ---- C20
InplaceMethods ==
    {"select_date", "select_months", "select_lat_lon", "temporal_resample",
     "spatial_resample", "deseasonalise"}

\* what the method of a call computes from the data, whatever its inplace
\* flag
OutcomeOf(data, call) ==
    CASE call.method = "select_date" ->
             select_date(data, call.date_from, call.date_to)
      [] call.method = "select_months" -> select_months(data, call.months)
      [] call.method = "select_lat_lon" ->
             select_lat_lon(data, call.lats, call.lons)
      [] call.method = "temporal_resample" ->
             temporal_resample(data, call.resample_to)
      [] call.method = "spatial_resample" ->
             spatial_resample(data, call.d_lat, call.d_lon)
      [] call.method = "deseasonalise" -> deseasonalise(data)

\* a call of a method with an inplace flag has just been made
InplaceStep ==
    /\ entry = "geofield"
    /\ run' = run + 1
    /\ args'.method \in InplaceMethods

GeneratorCallsOfRun ==
    {i \in 1..Len(calls) : calls[i].fn = "generator" /\ calls[i].at[1] = run}
EstimatorCallsOfRun == {i \in EstimatorCalls : calls[i].at[1] = run}

\* C21: in complete_test_ND every trial draws its own sample and makes its
\* own estimator call: each estimator call is made on the sample drawn just
\* before it in the same trial of the same pass, also in the combined pass,
\* and a completed sweep has made |sigmas| * |alphas| * |sizes_of_sample| *
\* (n + 1) * samples generator calls and as many estimator calls.
C21_FreshSamplePerTrial ==
    entry # "1D" =>
      /\ \A i \in {Len(calls)} \cap EstimatorCalls :
            /\ i > 1
            /\ calls[i - 1].fn = "generator"
            /\ calls[i - 1].at = calls[i].at
            /\ \A j \in 1..(i - 2) :
                  calls[j].fn = "generator" => calls[j].at # calls[i].at
      /\ SweepCompleted =>
            /\ Cardinality(GeneratorCallsOfRun)
                   = NumLeaves * (NumIndices + 1) * args.samples
            /\ Cardinality(EstimatorCallsOfRun)
                   = NumLeaves * (NumIndices + 1) * args.samples

\* a completed sweep of one leaf with two indices and two trials: six samples
C21_Witness ==
    /\ entry = "ND"
    /\ pc = "done"
    /\ NumLeaves = 1
    /\ NumIndices = 2
    /\ args.samples = 2
    /\ Cardinality(GeneratorCallsOfRun) = 6
    /\ Cardinality(EstimatorCallsOfRun) = 6


\* ------------------------------------------------------------ scaled determinant
\* complete_test_ND is inside the loop body of the sigma at sigma_i
InSigma ==
    /\ entry = "main"
    /\ pc \in {"nd_alpha", "nd_size", "nd_iset", "nd_trial"}
    /\ sigma_i \in 1..Len(args.sigmas)

\* C22: with a precalculated determinant D of the skeleton, the determinant
\* handed to the oracle for sigma s is D * s^dimension, which is the
\* determinant of the covariance s * sigma_skeleton; it depends on the
\* current sigma only, not on the sigmas processed before.
C22_DeterminantScaledPerSigma ==
    (InSigma /\ ~args.determinant.isNone) =>
        /\ ~used_determinant.isNone
        /\ used_determinant.val =
               RMul(args.determinant.val,
                    Rat(Power(args.sigmas[sigma_i], dimension), 1))
        /\ used_determinant.val = Determinant(CovarianceMatrix(matrix_sigma))

\* the second sigma of the list 2, 1 with the 3 x 3 skeleton of rho = 0.5:
\* the determinant is that of the skeleton, 1/2, not 2^3 times it
C22_Witness ==
    /\ InSigma
    /\ args.sigmas = <<2, 1>>
    /\ sigma_i = 2
    /\ args.sigma_skeleton.kind = "tridiagonal"
    /\ dimension = 3
    /\ args.determinant.val = Rat(1, 2)
    /\ used_determinant.val = Rat(1, 2)


\* ------------------------------------------------------------ row width
\* C26 as stated: every data row written by complete_test_ND has the same
\* number of tab-separated fields as the header line, 5 + 7*(n+1) for n
\* indices, with no extra, empty or missing trailing field.
C26_RowsAsWideAsHeader ==
    \A name \in ReportsND :
        LET lines == Lines(Written(name))
        IN  \A k \in 2..Len(lines) :
                /\ Len(Fields(lines[k])) = Len(Fields(lines[1]))
                /\ Len(Fields(lines[k])) = 5 + 7 * (NumIndices + 1)
                /\ \A f \in 1..Len(Fields(lines[k])) : Fields(lines[k])[f] # <<>>


\* ------------------------------------------------------------ validated options
\* lines 190-194 let the script pass
Validated ==
    /\ entry = "main"
    /\ cli.correlation_type \in Range(correlation_types)
    /\ cli.noise_type \in Range(noise_types)

\* C27 as stated: for every correlation_type that passes the validation and
\* every requested dimension d, complete_test_ND is handed a defined d x d
\* skeleton, and no sweep fails at line 69 on a missing skeleton.
C27_SkeletonDefined ==
    Validated =>
        /\ pc = "nd_call" =>
               /\ args.sigma_skeleton.kind # None
               /\ args.sigma_skeleton.shape = cli.dimensions[dim_i]
        /\ exception # "AttributeError"

\* C28 as stated: for every noise_type that passes the validation the sweep
\* is handed a callable oracle, and no sweep fails on the first oracle
\* evaluation (line 97) after its report header was written.
C28_OracleDefined ==
    Validated =>
        /\ dim_i >= 1 => args.theoretical_value_function # None
        /\ ~(/\ exception = "TypeError"
             /\ \E name \in DOMAIN files : Len(Lines(files[name])) >= 1)


\* ------------------------------------------------------------ deseasonalise
\* deseasonalise has just been called on data whose inferred frequency is
\* neither monthly nor daily
DeseasonaliseUnsupportedStep ==
    /\ entry = "geofield"
    /\ run' = run + 1
    /\ args'.method = "deseasonalise"
    /\ infer_freq(self.data.time) # "ValueError"
    /\ infer_freq(self.data.time) \notin MonthlyFreqs \cup DailyFreqs

\* C25: deseasonalise raises ValueError when the inferred time frequency is
\* neither monthly nor daily, and then the field's data is left unchanged and
\* no field is returned, with inplace=True as with inplace=False.
C25_UnsupportedFrequencyRaises ==
    [][DeseasonaliseUnsupportedStep =>
          /\ exception' = "ValueError"
          /\ pc' = "geo_raised"
          /\ self' = self
          /\ returned' = NoField]_vars

\* the in-place call on data of every second month has raised
C25_Witness ==
    /\ entry = "geofield"
    /\ pc = "geo_raised"
    /\ args.method = "deseasonalise"
    /\ args.inplace
    /\ exception = "ValueError"
    /\ infer_freq(self.data.time) = "2MS"
    /\ Gen(self.data) = 0

\* ------------------------------------------------------------ longitudes
NonNegative(lons) == \A j \in 1..Len(lons) : lons[j] >= 0

\* C30: no DataField holds a negative longitude: neither the field after its
\* construction and after any sequence of calls, inplace or not, nor a field
\* any of the calls returns.
C30_NoNegativeLongitude ==
    entry = "geofield" =>
        /\ NonNegative(self.data.lons)
        /\ (args.method \in InplaceMethods /\ ~returned.isNone) =>
               NonNegative(returned.data.lons)

\* a field built from a file in -180-179 notation and then cut, in place,
\* to a region through the prime meridian
C30_Witness ==
    /\ entry = "geofield"
    /\ args.method = "select_lat_lon"
    /\ args.inplace
    /\ exception = None
    /\ self.data.lons = <<270, 0>>


\* ------------------------------------------------------------ transfer_entropy_test.py
\* ---- floats and their text
\* a float with a short decimal expansion: (-1)^neg * n * 10^e, where n is
\* not a multiple of 10, or n = 0 and e = 0
Dec(neg, n, e) == [neg |-> neg, n |-> n, e |-> e]

DigitChars == <<"0", "1", "2", "3", "4", "5", "6", "7", "8", "9">>

RECURSIVE Digits(_)
\* the decimal digits of a natural number, as characters
Digits(n) ==
    IF n < 10 THEN <<DigitChars[n + 1]>>
    ELSE Append(Digits(n \div 10), DigitChars[(n % 10) + 1])

Zeros(k) == [i \in 1..k |-> "0"]

\* str(float), which an f-string uses: the shortest digits that round-trip,
\* float value = 0.digits * 10^decpt; positional notation when
\* -4 < decpt <= 16, otherwise d[.ddd]e+XX or d[.ddd]e-XX with at least two
\* exponent digits
format_float(x) ==
    LET digits == Digits(x.n)
        k == Len(digits)
        decpt == x.e + k
        exponent == decpt - 1
        body ==
            IF x.n = 0 THEN <<"0", ".", "0">>
            ELSE IF decpt > -4 /\ decpt <= 16
            THEN IF decpt <= 0 THEN <<"0", ".">> \o Zeros(-decpt) \o digits
                 ELSE IF decpt < k
                 THEN SubSeq(digits, 1, decpt) \o <<".">>
                      \o SubSeq(digits, decpt + 1, k)
                 ELSE digits \o Zeros(decpt - k) \o <<".", "0">>
            ELSE <<digits[1]>>
                 \o (IF k > 1 THEN <<".">> \o Tail(digits) ELSE <<>>)
                 \o <<"e", IF exponent < 0 THEN "-" ELSE "+">>
                 \o (IF Abs(exponent) < 10 THEN <<"0">> ELSE <<>>)
                 \o Digits(Abs(exponent))
    IN  (IF x.neg THEN <<"-">> ELSE <<>>) \o body

\* str.split(sep) for a separator that cannot overlap itself
Split(s, sep) ==
    LET m == Len(sep)
        at == {i \in 1..(Len(s) - m + 1) : SubSeq(s, i, i + m - 1) = sep}
        starts == SortedSeq({1} \cup {i + m : i \in at})
        ends == SortedSeq({i - 1 : i \in at} \cup {Len(s)})
    IN  [k \in 1..Len(starts) |-> SubSeq(s, starts[k], ends[k])]

IsDigits(s) == \A i \in 1..Len(s) : \E d \in 1..10 : s[i] = DigitChars[d]

RECURSIVE Number(_)
\* int() of a string of digits
Number(s) ==
    IF s = <<>> THEN 0
    ELSE 10 * Number(Most(s))
         + (CHOOSE d \in 0..9 : DigitChars[d + 1] = Last(s))

RECURSIVE Normal(_, _, _)
\* the float (-1)^neg * n * 10^e
Normal(neg, n, e) ==
    IF n = 0 THEN Dec(FALSE, 0, 0)
    ELSE IF n % 10 = 0 THEN Normal(neg, n \div 10, e + 1)
    ELSE Dec(neg, n, e)

Parsed(x) == [raised |-> None, val |-> x]
NotParsed == [raised |-> "ValueError", val |-> Dec(FALSE, 0, 0)]

\* float(s) for a string of digits, signs, "." and "e":
\* [sign] digits ["." digits] ["e" [sign] digits] with at least one digit
\* before the exponent; ValueError otherwise
float(s) ==
    LET signed == Len(s) > 0 /\ (s[1] = "-" \/ s[1] = "+")
        neg == Len(s) > 0 /\ s[1] = "-"
        unsigned == IF signed THEN Tail(s) ELSE s
        byE == Split(unsigned, <<"e">>)
        byDot == Split(byE[1], <<".">>)
        whole == byDot[1]
        frac == IF Len(byDot) >= 2 THEN byDot[2] ELSE <<>>
        power == IF Len(byE) >= 2 THEN byE[2] ELSE <<>>
        powerSigned == Len(power) > 0 /\ (power[1] = "-" \/ power[1] = "+")
        powerNeg == Len(power) > 0 /\ power[1] = "-"
        powerDigits == IF powerSigned THEN Tail(power) ELSE power
        wellFormed ==
            /\ Len(byE) <= 2
            /\ Len(byDot) <= 2
            /\ IsDigits(whole) /\ IsDigits(frac)
            /\ Len(whole) + Len(frac) > 0
            /\ Len(byE) = 2 => (Len(powerDigits) > 0 /\ IsDigits(powerDigits))
        exponent == IF powerNeg THEN -Number(powerDigits)
                               ELSE Number(powerDigits)
    IN  IF ~wellFormed THEN NotParsed
        ELSE Parsed(Normal(neg, Number(whole \o frac), exponent - Len(frac)))

\* line 151: the path of the result file of an epsilon, as characters; the
\* first element stands for the text up to the hyphen, which holds no "-"
\* and no ".b"
PathOf(epsilon) ==
    <<"transfer_entropy/Transfer_entropy_dataset", "-">>
    \o format_float(epsilon) \o <<".", "b", "i", "n">>

\* processing_transfer_entropy.py line 155:
\* float(file.split("-")[1].split(".b")[0]); IndexError without a "-"
epsilon_of(file) ==
    LET byHyphen == Split(file, <<"-">>)
    IN  IF Len(byHyphen) < 2 THEN [NotParsed EXCEPT !.raised = "IndexError"]
        ELSE float(Split(byHyphen[2], <<".", "b">>)[1])


\* ---- the command line
MaxEpsilons == 2
\* --t_stop, with --t_inc 1: the integration returns the time points 0..TStop
TStop == 3
\* --interpolate_samples_per_unit_time
SamplesPerUnitTime == 1

\* 0.01, 0.13, 1e-05, -0.5 and 2.0
EpsilonValues ==
    {Dec(FALSE, 1, -2), Dec(FALSE, 13, -2), Dec(FALSE, 1, -5),
     Dec(TRUE, 5, -1), Dec(FALSE, 2, 0)}

\* --epsilon, --history_first and --history_second are given (nargs='+':
\* at least one value each); with --dataset the epsilons are those of the
\* datasets (lines 66-68)
TransferCommandLines ==
    [epsilon : SeqsUpTo(EpsilonValues, MaxEpsilons) \ {<<>>},
     history_first : {<<2>>, <<2, 3>>, <<2, 2>>},
     history_second : {<<2>>, <<3, 2>>},
     skip : {1, TStop, TStop + 2},
     skip_real_t : BOOLEAN,
     interpolate : BOOLEAN,
     dataset : BOOLEAN]

InitTransfer ==
    /\ entry = "transfer"
    /\ pc = "te_epsilon"
    /\ args = NoArgs
    /\ cli \in TransferCommandLines
    /\ InitLocals
    /\ InitNoField
    /\ InitNoTransfer

\* lines 41-44, 66-68
epsilons == cli.epsilon
\* lines 47-55
histories_first == cli.history_first
histories_second == cli.history_second

\* sol.t of roessler_oscillator
sol_t == [i \in 1..(TStop + 1) |-> i - 1]

\* the outcome of a step that yields columns of data, by their time points
Columns(t) == [raised |-> None, data |-> t]
Failed(kind) == [raised |-> kind, data |-> <<>>]

\* np.linspace(start, stop, num=num, endpoint=True); ValueError for num < 0
linspace(start, stop, num) ==
    IF num < 0 THEN Failed("ValueError")
    ELSE IF num = 1 THEN Columns(<<Rat(start, 1)>>)
    ELSE Columns([i \in 1..num |->
                RAdd(Rat(start, 1),
                     RMul(Rat(i - 1, 1), Rat(stop - start, num - 1)))])

\* line 96: np.where(sol.t >= args.skip), a tuple holding one array of
\* positions (counted from 0)
where_t_from(skip) ==
    <<SortedSeq({i - 1 : i \in {m \in 1..Len(sol_t) : sol_t[m] >= skip}})>>

\* sol.y[:, start:] by the time points of the columns kept
ColumnsFrom(start) == SubSeq(sol_t, start + 1, Len(sol_t))

\* lines 75-115: the outcomes of preparing the data of an epsilon.  A slice
\* bound that is an array is a TypeError, except that older numpy releases
\* take an array of one element as that element.
Filtrate ==
    IF cli.dataset THEN {Columns(sol_t)}
    ELSE IF cli.interpolate
    THEN LET number == (TStop - cli.skip) * SamplesPerUnitTime
             new_t == linspace(cli.skip, TStop, number)
         IN  IF new_t.raised # None THEN {Failed(new_t.raised)}
             ELSE {Columns(new_t.data)}
    ELSE IF cli.skip_real_t
    THEN LET indices == where_t_from(cli.skip)
         IN  IF Len(indices) > 0
             THEN {Failed("TypeError")}
                  \cup (IF Len(indices[1]) = 1
                        THEN {Columns(ColumnsFrom(indices[1][1]))} ELSE {})
             ELSE {Failed("AssertionError")}
    ELSE {Columns(ColumnsFrom(cli.skip))}

\* line 100: logging.error
NoDataMessage == "Skipping is too large and no data were selected for processing"

\* a call of an imported function or of pickle.dump, for the call log
TECall(fn, at, data) == [fn |-> fn, at |-> at, data |-> data]

\* renyi_transfer_entropy is imported: its result is known by what it was
\* computed for
TransferEntropyStub(index, epsilon, history_first, history_second) ==
    [index_epsilon |-> index, epsilon |-> epsilon,
     history_x |-> history_first, history_y |-> history_second]

\* faulty variant of TE_Epsilon: results is not emptied for a new epsilon
TE_Epsilon_KeepResults ==
    /\ entry = "transfer"
    /\ pc = "te_epsilon"
    /\ index_epsilon < Len(epsilons)
    /\ index_epsilon' = index_epsilon + 1
    /\ \E outcome \in Filtrate :
        IF outcome.raised # None
        THEN /\ exception' = outcome.raised
             /\ stderr' = IF outcome.raised = "AssertionError"
                          THEN Append(stderr, NoDataMessage) ELSE stderr
             /\ pc' = "te_died"
             /\ UNCHANGED <<first_i, second_i, filtrated_solution, results>>
        ELSE /\ filtrated_solution' = outcome.data
             /\ first_i' = 1 /\ second_i' = 1
             /\ pc' = "te_pairs"
             /\ UNCHANGED <<exception, stderr, results>>
    /\ UNCHANGED <<params, geo, run, loops, locals, dicts, io, calls, dim_i,
                   exit_status, frames>>

\* lines 71-118: the next epsilon; its data are integrated and filtered
TE_Epsilon ==
    /\ entry = "transfer"
    /\ pc = "te_epsilon"
    /\ index_epsilon < Len(epsilons)
    /\ index_epsilon' = index_epsilon + 1
    /\ \E outcome \in Filtrate :
        IF outcome.raised # None
        THEN /\ exception' = outcome.raised
             /\ stderr' = IF outcome.raised = "AssertionError"
                          THEN Append(stderr, NoDataMessage) ELSE stderr
             /\ pc' = "te_died"
             /\ UNCHANGED <<first_i, second_i, filtrated_solution, results>>
        ELSE /\ filtrated_solution' = outcome.data
             /\ results' = EmptyDict
             /\ first_i' = 1 /\ second_i' = 1
             /\ pc' = "te_pairs"
             /\ UNCHANGED <<exception, stderr>>
    /\ UNCHANGED <<params, geo, run, loops, locals, dicts, io, calls, dim_i,
                   exit_status, frames>>

\* lines 119-149: the next pair of histories
TE_Pair ==
    /\ entry = "transfer"
    /\ pc = "te_pairs"
    /\ first_i <= Len(histories_first)
    /\ LET epsilon == epsilons[index_epsilon]
           history_first == histories_first[first_i]
           history_second == histories_second[second_i]
           transfer_entropy ==
               TransferEntropyStub(index_epsilon, epsilon, history_first,
                                   history_second)
       IN  /\ calls' = Append(calls,
                   TECall("renyi_transfer_entropy",
                          <<index_epsilon, first_i, second_i>>,
                          filtrated_solution))
           /\ results' = DictSet(results,
                                 <<epsilon, history_first, history_second>>,
                                 transfer_entropy)
    /\ IF second_i < Len(histories_second)
       THEN second_i' = second_i + 1 /\ UNCHANGED first_i
       ELSE second_i' = 1 /\ first_i' = first_i + 1
    /\ UNCHANGED <<params, geo, pc, run, loops, locals, dicts, io, exception,
                   mainvars, index_epsilon, filtrated_solution, frames>>

\* lines 151-155: the results of the epsilon are pickled
TE_Save ==
    /\ entry = "transfer"
    /\ pc = "te_pairs"
    /\ first_i > Len(histories_first)
    /\ LET path == PathOf(epsilons[index_epsilon])
       IN  /\ files' = DictSet(files, path, results)
           /\ calls' = Append(calls,
                   TECall("pickle.dump", <<index_epsilon>>,
                          [path |-> path, results |-> results]))
    /\ pc' = "te_epsilon"
    /\ UNCHANGED <<params, geo, transfer, run, loops, locals, dicts, fd,
                   exception, mainvars>>

\* line 71 exhausted: the script ends
TE_Exit ==
    /\ entry = "transfer"
    /\ pc = "te_epsilon"
    /\ index_epsilon = Len(epsilons)
    /\ exit_status' = "0"
    /\ pc' = "te_done"
    /\ UNCHANGED <<params, geo, transfer, run, loops, locals, dicts, io, calls,
                   exception, dim_i, stderr>>

\* the exception reaches the top level: traceback, exit status 1
TE_Die ==
    /\ entry = "transfer"
    /\ pc = "te_died"
    /\ stderr' = Append(stderr, exception)
    /\ exit_status' = "1"
    /\ pc' = "te_done"
    /\ UNCHANGED <<params, geo, transfer, run, loops, locals, dicts, io, calls,
                   exception, dim_i>>

\* ---- processing_transfer_entropy.py
\* lines 149-152 of process_datasets, called on the files the test left:
\* glob lists them, in any order
Process_datasets ==
    /\ entry = "transfer"
    /\ pc = "te_done"
    /\ frames' = <<>>
    /\ exception' = None
    /\ pc' = "pd_files"
    /\ UNCHANGED <<params, geo, run, loops, locals, dicts, io, calls, mainvars,
                   index_epsilon, first_i, second_i, filtrated_solution,
                   results>>

\* lines 154-162: the next file; its epsilon is parsed from its name, then
\* the table is read and framed
Process_datasets_File ==
    /\ entry = "transfer"
    /\ pc = "pd_files"
    /\ \E file \in DOMAIN files \ {frames[i].file : i \in 1..Len(frames)} :
        LET epsilon == epsilon_of(file)
        IN  IF epsilon.raised # None
            THEN /\ exception' = epsilon.raised
                 /\ pc' = "pd_raised"
                 /\ UNCHANGED frames
            ELSE /\ frames' = Append(frames,
                        [file |-> file, epsilon |-> epsilon.val,
                         table |-> files[file]])
                 /\ UNCHANGED <<exception, pc>>
    /\ UNCHANGED <<params, geo, run, loops, locals, dicts, io, calls, mainvars,
                   index_epsilon, first_i, second_i, filtrated_solution,
                   results>>

NextTransfer ==
    \/ TE_Epsilon \/ TE_Pair \/ TE_Save \/ TE_Exit \/ TE_Die
    \/ Process_datasets \/ Process_datasets_File

SpecTransfer == InitTransfer /\ [][NextTransfer]_vars


\* ---- C23
DumpCalls == {i \in 1..Len(calls) : calls[i].fn = "pickle.dump"}

\* the keys of histories_first x histories_second for an epsilon
KeysOf(epsilon) ==
    {<<epsilon, histories_first[a], histories_second[b]>> :
        a \in 1..Len(histories_first), b \in 1..Len(histories_second)}

\* C23: the result file written for an epsilon e holds exactly one entry for
\* each key (e, history_first, history_second) of histories_first x
\* histories_second and no entry computed for another epsilon; it is written
\* only after all history pairs of e were processed; the files are written
\* in the order of the epsilon list.
C23_OneFilePerEpsilon ==
    entry = "transfer" =>
        /\ \A i \in DumpCalls :
            LET k == calls[i].at[1]
                e == epsilons[k]
                dumped == calls[i].data.results
            IN  /\ k = Cardinality({j \in DumpCalls : j <= i})
                /\ calls[i].data.path = PathOf(e)
                /\ DOMAIN dumped = KeysOf(e)
                /\ \A key \in DOMAIN dumped :
                       dumped[key] = TransferEntropyStub(k, e, key[2], key[3])
                /\ Cardinality({j \in 1..(i - 1) :
                                   /\ calls[j].fn = "renyi_transfer_entropy"
                                   /\ calls[j].at[1] = k})
                       = Len(histories_first) * Len(histories_second)
                /\ \A j \in (i + 1)..Len(calls) : calls[j].at[1] # k
        /\ \A path \in DOMAIN files :
            \E i \in DumpCalls :
                /\ calls[i].data.path = path
                /\ files[path] = calls[i].data.results
                /\ \A j \in DumpCalls : j > i => calls[j].data.path # path

\* two different epsilons, two histories each way: two files of four
\* entries
C23_Witness ==
    /\ entry = "transfer"
    /\ pc = "te_done"
    /\ exit_status = "0"
    /\ Len(epsilons) = 2
    /\ epsilons[1] # epsilons[2]
    /\ histories_first = <<2, 3>>
    /\ histories_second = <<3, 2>>
    /\ Cardinality(DOMAIN files) = 2
    /\ \A path \in DOMAIN files : Cardinality(DOMAIN files[path]) = 4

\* ---- C24
\* C24 as stated: with --skip_real_t, without --interpolate and --dataset,
\* when no time point satisfies t >= skip, the script logs "Skipping is too
\* large and no data were selected for processing" and raises
\* AssertionError; no transfer entropy is computed and no result file is
\* written.
C24_NoDataSelected ==
    (/\ entry = "transfer"
     /\ cli.skip_real_t /\ ~cli.interpolate /\ ~cli.dataset
     /\ \A i \in 1..Len(sol_t) : sol_t[i] < cli.skip
     /\ index_epsilon >= 1) =>
        /\ NoDataMessage \in Range(stderr)
        /\ IF pc = "te_died" THEN exception = "AssertionError"
                             ELSE "AssertionError" \in Range(stderr)
        /\ \A i \in 1..Len(calls) :
               calls[i].fn \notin {"renyi_transfer_entropy", "pickle.dump"}
        /\ DOMAIN files = {}

\* ---- C29
\* C29 as stated: for every epsilon e the test writes a result file for,
\* exponent forms and negative values included, process_datasets parses from
\* the file's path a float equal to e.
C29_EpsilonRoundTrip ==
    entry = "transfer" =>
        /\ pc # "pd_raised"
        /\ \A i \in 1..Len(frames) :
            /\ PathOf(frames[i].epsilon) = frames[i].file
            /\ \A key \in DOMAIN frames[i].table : key[1] = frames[i].epsilon

=============================================================================
